---- MODULE Spec2Model ----
(***************************************************************************)
(* Model of the WebAR plant game core: the gesture classifier and          *)
(* debouncer of HandTracking (src/js/hand-tracking.js), the orb pool of    *)
(* OrbCreator (src/js/orb-creator.js), the pendant pool and connection     *)
(* list of PendantCreator (src/js/pendant-creator.js, second class) and    *)
(* the gesture handlers of ARPlantGame (src/js/main.js).                   *)
(*                                                                         *)
(* Lengths are integers in units of 0.001 of the normalised landmark       *)
(* space, times are integers in milliseconds, temperatures are integers in *)
(* tenths of a degree.                                                     *)
(***************************************************************************)
EXTENDS Integers, Sequences, FiniteSets, TLC

VARIABLES
    orbs,             \* OrbCreator.orbs: array of orbs, insertion order
    pendants,         \* PendantCreator.pendants: array of pendants
    connections,      \* PendantCreator.connections: array of lines
    wristAlias,       \* OrbCreator.wristOrbs is the very array OrbCreator.orbs
    isWristTracking,  \* OrbCreator.isWristTracking
    orbAttached,      \* orbs of the pool whose userData.attachedToWrist is true
    latestPlant,      \* plantDetector.getLatestPlant() is not null
    pendingOrbs,      \* createOrb calls awaiting location / weather / air quality
    pendingPendants,  \* createPendant calls awaiting the texture
    nextOrbId,        \* identity of the next orb object constructed
    nextPendantId,    \* identity of the next pendant object constructed
    disposedOrbs,     \* orbs whose geometry/material were disposed, in order
    disposedPendants, \* pendants whose resources were disposed, in order
    now,              \* Date.now() at the latest tracking callback
    lastGestureTime,  \* HandTracking.lastGestureTime
    currentGesture,   \* HandTracking.currentGesture
    handLandmarks,    \* HandTracking.handLandmarks
    eventLog,         \* handleGesture invocations so far: <<gesture, time>>
    framePeriod,      \* period of the frame loop in a fixed-rate run, else 0
    cls,              \* <<result>> of classifying handLandmarks, or <<>>
    pendantError,     \* the latest createPendant call to settle was rejected
    envData,          \* what the weather and air-quality services answer
    orbUserData,      \* <<userData>> of the orb constructed last, or <<>>
    animationTime,    \* update calls that advanced an animation value
    pendantWrist,     \* userData.wristIndex of the pendants attachedToWrist
    plantSource,      \* source of plantDetector.getLatestPlant(), or "none"
    identifyError,    \* what the latest identifyPlant call threw, or "none"
    framesInFlight,   \* hands.send calls that have not resolved
    frameScheduled,   \* a processFrame callback is requested
    apiNow,           \* Date.now() as APIService reads it
    cache,            \* APIService.cache: key -> <<entry>>, or <<>>
    pendingRequests,  \* APIService.pendingRequests: key -> <<promise>>, or <<>>
    requests,         \* the request promises created so far, in order
    apiReturn,        \* how the latest getWeather / getAirQuality step ended
    isProcessing,     \* PlantDetector.isProcessing
    identifying,      \* identifyPlant calls suspended at a service request
    isInitialized,    \* HandTracking.isInitialized
    responses         \* bodies the air-quality function answered, in order

poolVars == <<orbs, pendants, connections, wristAlias, isWristTracking,
              orbAttached, latestPlant, pendingOrbs,
              pendingPendants, nextOrbId, nextPendantId, disposedOrbs,
              disposedPendants>>

gestureVars == <<now, lastGestureTime, currentGesture, handLandmarks,
                 eventLog, framePeriod, cls>>

apiVars == <<apiNow, cache, pendingRequests, requests, apiReturn>>

runVars == <<isProcessing, identifying, isInitialized>>

sessionVars == <<pendantWrist, plantSource, identifyError, framesInFlight,
                 frameScheduled, apiNow, cache, pendingRequests, requests,
                 apiReturn, isProcessing, identifying, isInitialized,
                 responses>>

dataVars == <<pendantError, envData, orbUserData, animationTime,
              pendantWrist, plantSource, identifyError, framesInFlight,
              frameScheduled, apiNow, cache, pendingRequests, requests,
              apiReturn, isProcessing, identifying, isInitialized,
                 responses>>

vars == <<orbs, pendants, connections, wristAlias, isWristTracking,
          orbAttached, latestPlant, pendingOrbs,
          pendingPendants, nextOrbId, nextPendantId, disposedOrbs,
          disposedPendants, now, lastGestureTime, currentGesture,
          handLandmarks, eventLog, framePeriod, cls, pendantError, envData,
          orbUserData, animationTime, pendantWrist, plantSource,
          identifyError, framesInFlight, frameScheduled, apiNow, cache,
          pendingRequests, requests, apiReturn, isProcessing, identifying,
          isInitialized, responses>>

----------------------------------------------------------------------------
(* Program constants (src/config.js) *)

maxOrbs == 10

maxPendants == 5

cacheTimeout == 300000

cooldownMs == 500

pinchThreshold == 50

(* A configuration value as read by the code: <<v>> when the key is set to
   v, the empty sequence when the key is absent and the read is undefined *)
Defined(v) == <<v>>

Undefined == <<>>

(* CONFIG.gestures has no key fistPinchExclusion *)
fistPinchExclusion == Undefined

----------------------------------------------------------------------------
(* Bounds of the model *)

MaxOrbsCreated == 11

MaxPendantsCreated == 6

MaxPending == 2

(* Date.now() when tracking starts, far from lastGestureTime = 0 *)
StartTime == 1000

(* tracking callbacks are followed for this long after StartTime *)
MaxElapsed == 1600

(* createOrb / createPendant calls in the small scene *)
SceneOrbs == 4

ScenePendants == 2

(* update calls that are followed *)
MaxTicks == 2

(* the largest air-quality index a service answers with *)
MaxAqi == 250

(* orbs and pendants constructed while removals and the wrist are followed *)
WristObjects == 2

(* request promises followed in a run of APIService *)
MaxRequests == 3

(* the latest instant APIService is followed to, in milliseconds *)
MaxApiTime == 400000
MaxResponses == 2

----------------------------------------------------------------------------
(* Objects *)

(* null as a gesture *)
Null == "null"

(* null as an object reference *)
NoObject == <<"null", 0>>

(* null as a landmark array *)
NoHand == <<>>

Orb(n) == <<"orb", n>>

Pendant(n) == <<"pendant", n>>

ObjType(o) == o[1]

SeqToSet(s) == {s[i] : i \in 1..Len(s)}

(* Array.indexOf: the first index holding x, or 0 when there is none *)
IndexOf(s, x) ==
    IF \E i \in 1..Len(s) : s[i] = x
    THEN CHOOSE i \in 1..Len(s) : s[i] = x /\ \A j \in 1..(i-1) : s[j] # x
    ELSE 0

(* index = indexOf(x); if (index > -1) splice(index, 1) *)
SpliceOut(s, x) ==
    LET i == IndexOf(s, x)
    IN IF i > 0 THEN SubSeq(s, 1, i-1) \o SubSeq(s, i+1, Len(s)) ELSE s

----------------------------------------------------------------------------
(* Strings: a string is the sequence of its characters *)

UpperCaseLetters ==
    <<"A", "B", "C", "D", "E", "F", "G", "H", "I", "J", "K", "L", "M",
      "N", "O", "P", "Q", "R", "S", "T", "U", "V", "W", "X", "Y", "Z">>

LowerCaseLetters ==
    <<"a", "b", "c", "d", "e", "f", "g", "h", "i", "j", "k", "l", "m",
      "n", "o", "p", "q", "r", "s", "t", "u", "v", "w", "x", "y", "z">>

(* the position of character c in letters, or 0 *)
LetterIndex(letters, c) ==
    IF \E i \in 1..Len(letters) : letters[i] = c
    THEN CHOOSE i \in 1..Len(letters) : letters[i] = c
    ELSE 0

(* String.prototype.toLowerCase *)
ToLowerCase(s) ==
    [i \in 1..Len(s) |->
        LET k == LetterIndex(UpperCaseLetters, s[i])
        IN IF k > 0 THEN LowerCaseLetters[k] ELSE s[i]]

(* the same word in capitals, and with a capital initial: the letter cases
   in which a service may spell a condition *)
ToUpperCase(s) ==
    [i \in 1..Len(s) |->
        LET k == LetterIndex(LowerCaseLetters, s[i])
        IN IF k > 0 THEN UpperCaseLetters[k] ELSE s[i]]

Capitalized(s) ==
    [i \in 1..Len(s) |-> IF i = 1 THEN ToUpperCase(s)[1] ELSE s[i]]

----------------------------------------------------------------------------
(* CONFIG.airQuality, CONFIG.weather, CONFIG.temperature (src/config.js).
   Temperatures are integers in tenths of a degree, speeds in units of
   0.001, morph factors and spikiness in units of 0.01. *)

thresholds == <<50, 100, 150, 200>>

colors ==
    [good |-> "#00ff88",
     moderate |-> "#ffeb3b",
     unhealthy |-> "#ff9800",
     veryUnhealthy |-> "#f44336",
     hazardous |-> "#9c27b0"]

clear == <<"c", "l", "e", "a", "r">>

clouds == <<"c", "l", "o", "u", "d", "s">>

rain == <<"r", "a", "i", "n">>

drizzle == <<"d", "r", "i", "z", "z", "l", "e">>

thunderstorm == <<"t", "h", "u", "n", "d", "e", "r", "s", "t", "o", "r", "m">>

snow == <<"s", "n", "o", "w">>

mist == <<"m", "i", "s", "t">>

(* an entry of CONFIG.weather.shapes *)
Shape(morphFactor, spikiness) ==
    [morphFactor |-> Defined(morphFactor), spikiness |-> Defined(spikiness)]

shapes ==
    (clear :> Shape(0, 10)) @@ (clouds :> Shape(20, 15)) @@
    (rain :> Shape(50, 30)) @@ (drizzle :> Shape(40, 25)) @@
    (thunderstorm :> Shape(80, 60)) @@ (snow :> Shape(30, 40)) @@
    (mist :> Shape(20, 10))

minTemp == -200

maxTemp == 450

minSpeed == 200

maxSpeed == 2000

----------------------------------------------------------------------------
(* OrbCreator.mapDataToVisuals *)

(* the tiers with an exclusive upper bound *)
AqiColorExclusive(aqi) ==
    IF aqi < thresholds[1] THEN colors.good
    ELSE IF aqi < thresholds[2] THEN colors.moderate
    ELSE IF aqi < thresholds[3] THEN colors.unhealthy
    ELSE IF aqi < thresholds[4] THEN colors.veryUnhealthy
    ELSE colors.hazardous

(* "Map air quality to color" *)
AqiColor(aqi) ==
    IF aqi <= thresholds[1] THEN colors.good
    ELSE IF aqi <= thresholds[2] THEN colors.moderate
    ELSE IF aqi <= thresholds[3] THEN colors.unhealthy
    ELSE IF aqi <= thresholds[4] THEN colors.veryUnhealthy
    ELSE colors.hazardous

(* the air-quality function: PM2.5 bands of convertToUSAQI, concentrations
   in hundredths of a microgram per cubic metre (the service reports two
   decimals), so 12.1 is 1210 *)
aqiBreakpoints == <<
    [min |-> 0, max |-> 1200, aqiMin |-> 0, aqiMax |-> 50],
    [min |-> 1210, max |-> 3540, aqiMin |-> 51, aqiMax |-> 100],
    [min |-> 3550, max |-> 5540, aqiMin |-> 101, aqiMax |-> 150],
    [min |-> 5550, max |-> 15040, aqiMin |-> 151, aqiMax |-> 200],
    [min |-> 15050, max |-> 25040, aqiMin |-> 201, aqiMax |-> 300],
    [min |-> 25050, max |-> 50000, aqiMin |-> 301, aqiMax |-> 500] >>

(* the bands a concentration lies in *)
BandsOf(pm25) ==
    {i \in 1..Len(aqiBreakpoints) :
        pm25 >= aqiBreakpoints[i].min /\ pm25 <= aqiBreakpoints[i].max}

(* convertToUSAQI: linear interpolation in the first band that holds the
   concentration, rounded as Math.round rounds (half up); 500 when no band
   holds it *)
convertToUSAQI(pm25) ==
    IF BandsOf(pm25) = {} THEN 500
    ELSE LET bp == aqiBreakpoints[CHOOSE i \in BandsOf(pm25) :
                                     \A j \in BandsOf(pm25) : i <= j]
             num == (bp.aqiMax - bp.aqiMin) * (pm25 - bp.min)
             den == bp.max - bp.min
         IN bp.aqiMin + ((2 * num + den) \div (2 * den))

(* data.list[0].components.pm2_5 as the pollution service may report it:
   the ends and the middle of every band, and the middle between two
   neighbouring bands *)
Pm25Inputs ==
    UNION {{aqiBreakpoints[i].min, aqiBreakpoints[i].max,
            (aqiBreakpoints[i].min + aqiBreakpoints[i].max) \div 2} :
           i \in 1..Len(aqiBreakpoints)}
    \cup {(aqiBreakpoints[i].max + aqiBreakpoints[i + 1].min) \div 2 :
           i \in 1..(Len(aqiBreakpoints) - 1)}

(* exports.handler of the air-quality function, a GET with lat and lon
   that the pollution service answers: the body carries the concentration
   and its conversion *)
AirQualityHandler(pm25) ==
    /\ Len(responses) < MaxResponses
    /\ responses' = Append(responses,
                           [pm2_5 |-> pm25, aqiUS |-> convertToUSAQI(pm25)])
    /\ UNCHANGED <<poolVars, gestureVars, apiVars, runVars>>
    /\ UNCHANGED <<pendantError, envData, orbUserData, animationTime,
                   pendantWrist, plantSource, identifyError, framesInFlight,
                   frameScheduled>>

(* updateEnvironmentalData: the label shown next to the index *)
AqiLabel(aqi) ==
    IF aqi > 200 THEN "Hazardous"
    ELSE IF aqi > 150 THEN "Very Unhealthy"
    ELSE IF aqi > 100 THEN "Unhealthy"
    ELSE IF aqi > 50 THEN "Moderate"
    ELSE "Good"

(* lower-case names every plain object inherits from Object.prototype *)
InheritedNames ==
    {<<"c", "o", "n", "s", "t", "r", "u", "c", "t", "o", "r">>,
     <<"_", "_", "p", "r", "o", "t", "o", "_", "_">>}

(* CONFIG.weather.shapes[condition]: <<value>>, or <<>> for undefined. An
   inherited name reads a function or the prototype object: truthy, with no
   morphFactor and no spikiness *)
ShapeProperty(condition) ==
    IF condition \in DOMAIN shapes THEN <<shapes[condition]>>
    ELSE IF condition \in InheritedNames
         THEN <<[morphFactor |-> Undefined, spikiness |-> Undefined]>>
    ELSE <<>>

(* "Map weather to shape": shapes[condition.toLowerCase()] || shapes.clear *)
ShapeConfig(condition) ==
    LET property == ShapeProperty(ToLowerCase(condition))
    IN IF property # <<>> THEN property[1] ELSE shapes[clear]

(* the interpolated speed returned without the clamp *)
ClampSpeedNone(speed) == speed

(* Math.max(minSpeed, Math.min(animationSpeed, maxSpeed)), on numerators
   over the denominator maxTemp - minTemp *)
ClampSpeed(speed) ==
    LET range == maxTemp - minTemp
        capped == IF speed < maxSpeed * range THEN speed ELSE maxSpeed * range
    IN IF minSpeed * range > capped THEN minSpeed * range ELSE capped

(* "Map temperature to animation speed": the speed as the numerator of a
   fraction whose denominator is maxTemp - minTemp, so that
   minSpeed + (temp - minTemp) / (maxTemp - minTemp) * (maxSpeed - minSpeed)
   is computed exactly *)
AnimationSpeed(temp) ==
    ClampSpeed(minSpeed * (maxTemp - minTemp)
               + (temp - minTemp) * (maxSpeed - minSpeed))

MapDataToVisuals(weatherData, airQualityData) ==
    [color |-> AqiColor(airQualityData.aqiUS),
     morphFactor |-> ShapeConfig(weatherData.condition).morphFactor,
     spikiness |-> ShapeConfig(weatherData.condition).spikiness,
     animationSpeed |-> AnimationSpeed(weatherData.temperature)]

(* the data of the catch block of createOrb *)
FallbackWeather == [temperature |-> 200, condition |-> clear]

FallbackAirQuality == [aqiUS |-> 50]

(* how the awaits of createOrb end: all three requests answer, or the
   location, the weather, the air-quality or both data requests fail *)
FetchOutcomes == {"ok", "location", "weather", "airQuality", "both"}

(* a catch per request: each failed request is replaced on its own *)
DataAfterFetchPerRequest(outcome, env) ==
    [weatherData |-> IF outcome \in {"ok", "airQuality"}
                     THEN env.weatherData ELSE FallbackWeather,
     airQualityData |-> IF outcome \in {"ok", "weather"}
                        THEN env.airQualityData ELSE FallbackAirQuality]

(* createOrb, the try / catch around the awaits: the pair assigned by the
   destructuring when everything resolved, else the pair of the catch *)
DataAfterFetch(outcome, env) ==
    IF outcome = "ok"
    THEN [weatherData |-> env.weatherData,
          airQualityData |-> env.airQualityData]
    ELSE [weatherData |-> FallbackWeather,
          airQualityData |-> FallbackAirQuality]

----------------------------------------------------------------------------
(* OrbCreator *)

(* removeOrb: the orbs array after the splice *)
RemoveOrbFrom(s, orb) == SpliceOut(s, orb)

(* A limit that never evicts *)
LimitOrbsNoEvict(s) == s

(* A limit that evicts the orb just pushed *)
LimitOrbsNewest(s) ==
    IF Len(s) > maxOrbs THEN RemoveOrbFrom(s, s[Len(s)]) ELSE s

(* createOrb, "Limit number of orbs": the array after the check *)
LimitOrbs(s) ==
    IF Len(s) > maxOrbs THEN RemoveOrbFrom(s, s[1]) ELSE s

(* a limit check whose eviction forgets to dispose *)
LimitOrbsDisposedNone(s) == <<>>

(* the orbs disposed by the limit check *)
LimitOrbsDisposed(s) ==
    IF Len(s) > maxOrbs THEN <<s[1]>> ELSE <<>>

(* orbCreator.wristOrbs *)
WristOrbs == IF wristAlias THEN orbs ELSE <<>>

(* createOrb up to its first await: the call is now suspended *)
CreateOrbBegin ==
    /\ pendingOrbs' = pendingOrbs + 1

(* a createOrb whose catch block rethrows: with the data of the catch the
   call ends without an orb *)
CreateOrbRethrow(data) ==
    /\ pendingOrbs > 0
    /\ pendingOrbs' = pendingOrbs - 1
    /\ IF data.weatherData = FallbackWeather
          /\ data.airQualityData = FallbackAirQuality
       THEN UNCHANGED <<orbs, disposedOrbs, orbAttached, nextOrbId,
                        orbUserData>>
       ELSE LET pushed == Append(orbs, Orb(nextOrbId))
            IN /\ orbs' = LimitOrbs(pushed)
               /\ disposedOrbs' = disposedOrbs \o LimitOrbsDisposed(pushed)
               /\ orbAttached' = orbAttached \ SeqToSet(LimitOrbsDisposed(pushed))
               /\ nextOrbId' = nextOrbId + 1
               /\ orbUserData' =
                     <<[weatherData |-> data.weatherData,
                        airQualityData |-> data.airQualityData,
                        visualProps |-> MapDataToVisuals(data.weatherData,
                                                         data.airQualityData)]>>
    /\ UNCHANGED <<pendants, connections, wristAlias, isWristTracking,
                   latestPlant, pendingPendants, nextPendantId,
                   disposedPendants>>
    /\ UNCHANGED gestureVars
    /\ UNCHANGED <<pendantError, envData, animationTime>>
    /\ UNCHANGED sessionVars

(* createOrb after its awaits, with the data of the try or of the catch:
   the visuals mapped from it, the mesh constructed with its userData,
   pushed, the pool limited, the tag created *)
CreateOrbWith(data) ==
    /\ pendingOrbs > 0
    /\ LET orb == Orb(nextOrbId)
           pushed == Append(orbs, orb)
       IN /\ orbs' = LimitOrbs(pushed)
          /\ disposedOrbs' = disposedOrbs \o LimitOrbsDisposed(pushed)
          /\ orbAttached' = orbAttached \ SeqToSet(LimitOrbsDisposed(pushed))
          /\ orbUserData' =
                <<[weatherData |-> data.weatherData,
                   airQualityData |-> data.airQualityData,
                   visualProps |-> MapDataToVisuals(data.weatherData,
                                                    data.airQualityData)]>>
    /\ nextOrbId' = nextOrbId + 1
    /\ pendingOrbs' = pendingOrbs - 1
    /\ UNCHANGED <<pendants, connections, wristAlias, isWristTracking,
                   latestPlant, pendingPendants, nextPendantId,
                   disposedPendants>>
    /\ UNCHANGED gestureVars
    /\ UNCHANGED <<pendantError, envData, animationTime>>
    /\ UNCHANGED sessionVars

(* the continuation of a createOrb whose awaits ended as outcome *)
CreateOrbSettle(outcome) == CreateOrbWith(DataAfterFetch(outcome, envData))

(* the continuation of a suspended createOrb, however its awaits ended *)
CreateOrbFinish ==
    \E data \in {DataAfterFetch(outcome, envData) : outcome \in FetchOutcomes} :
        CreateOrbWith(data)

(* an attach that flags the oldest orb only *)
AttachOrbsToWristOldest ==
    IF Len(orbs) = 0
    THEN UNCHANGED <<wristAlias, isWristTracking, orbAttached>>
    ELSE /\ wristAlias' = TRUE
         /\ isWristTracking' = TRUE
         /\ orbAttached' = orbAttached \cup {Head(orbs)}

(* attachOrbsToWrist(orbCreator.getAllOrbs()) *)
AttachOrbsToWristEffect ==
    IF Len(orbs) = 0
    THEN UNCHANGED <<wristAlias, isWristTracking, orbAttached>>
    ELSE /\ wristAlias' = TRUE
         /\ isWristTracking' = TRUE
         /\ orbAttached' = orbAttached \cup SeqToSet(orbs)

(* a clearAllOrbs that empties the pool but leaves the wrist state *)
ClearAllOrbsEffectNoDetach ==
    /\ disposedOrbs' = disposedOrbs \o orbs
    /\ orbs' = <<>>
    /\ UNCHANGED <<orbAttached, wristAlias, isWristTracking>>

(* clearAllOrbs: hideAllTags, detachOrbsFromWrist, removeOrb on a copy *)
ClearAllOrbsEffect ==
    /\ orbAttached' = {}
    /\ wristAlias' = FALSE
    /\ isWristTracking' = FALSE
    /\ disposedOrbs' = disposedOrbs \o orbs
    /\ orbs' = <<>>

ClearAllOrbs ==
    /\ ClearAllOrbsEffect
    /\ UNCHANGED <<pendants, connections, latestPlant,
                   pendingOrbs, pendingPendants, nextOrbId, nextPendantId,
                   disposedPendants>>
    /\ UNCHANGED gestureVars
    /\ UNCHANGED dataVars

(* a detach that turns tracking off and keeps the flags *)
DetachOrbsFromWristKeepFlags ==
    /\ wristAlias' = FALSE
    /\ isWristTracking' = FALSE
    /\ UNCHANGED orbAttached

(* detachOrbsFromWrist: the flag of every orb of wristOrbs cleared, wristOrbs
   replaced by [], tracking off *)
DetachOrbsFromWristEffect ==
    /\ orbAttached' = orbAttached \ SeqToSet(WristOrbs)
    /\ wristAlias' = FALSE
    /\ isWristTracking' = FALSE

DetachOrbsFromWrist ==
    /\ DetachOrbsFromWristEffect
    /\ UNCHANGED <<orbs, pendants, connections, latestPlant, pendingOrbs,
                   pendingPendants, nextOrbId, nextPendantId, disposedOrbs,
                   disposedPendants>>
    /\ UNCHANGED gestureVars
    /\ UNCHANGED dataVars

(* removeOrb(orb), for a member of the pool or not: the splice is guarded by
   indexOf, the dispose calls are not. As many calls are followed as orbs
   were constructed. *)
RemoveOrb(orb) ==
    /\ Len(disposedOrbs) < nextOrbId - 1
    /\ orbs' = RemoveOrbFrom(orbs, orb)
    /\ orbAttached' = orbAttached \ {orb}
    /\ disposedOrbs' = Append(disposedOrbs, orb)
    /\ UNCHANGED <<pendants, connections, wristAlias, isWristTracking,
                   latestPlant, pendingOrbs, pendingPendants, nextOrbId,
                   nextPendantId, disposedPendants>>
    /\ UNCHANGED gestureVars
    /\ UNCHANGED dataVars

----------------------------------------------------------------------------
(* PendantCreator (the class with tags and bracelet connections) *)

(* createConnection: the userData of the line, and points, the two objects
   whose positions its geometry was last set from *)
CreateConnection(obj1, obj2) ==
    [points |-> <<obj1, obj2>>,
     obj1 |-> obj1,
     obj2 |-> obj2,
     pendant |-> IF ObjType(obj1) = "pendant" THEN obj1
                 ELSE IF ObjType(obj2) = "pendant" THEN obj2 ELSE NoObject,
     orb |-> IF ObjType(obj1) = "orb" THEN obj1
             ELSE IF ObjType(obj2) = "orb" THEN obj2 ELSE NoObject]

(* a pendant linked to the newest orb only *)
ConnectToNewestOrb(conns, pendant, orbSeq) ==
    IF Len(orbSeq) = 0 THEN conns
    ELSE Append(conns, CreateConnection(pendant, orbSeq[Len(orbSeq)]))

(* connectToOrbs: one line per orb of orbCreator.getAllOrbs() *)
ConnectToOrbs(conns, pendant, orbSeq) ==
    conns \o [i \in 1..Len(orbSeq) |-> CreateConnection(pendant, orbSeq[i])]

(* removePendant: the connections kept by the filter *)
RemovePendantConnections(conns, pendant) ==
    SelectSeq(conns, LAMBDA c : c.pendant # pendant)

(* A limit that never evicts *)
LimitPendantsNoEvict(s) == s

(* createPendant, "Limit number of pendants": the pendant removed, if any *)
LimitPendants(s) ==
    IF Len(s) > maxPendants THEN <<s[1]>> ELSE <<>>

(* createPendant up to the await of createPendantMesh; without a plant it
   throws before touching anything *)
CreatePendantBegin ==
    IF latestPlant
    THEN pendingPendants' = pendingPendants + 1
    ELSE UNCHANGED pendingPendants

(* createPendant after the texture loaded: push, connectToOrbs, limit, tag *)
CreatePendantFinish ==
    /\ pendingPendants > 0
    /\ LET pendant == Pendant(nextPendantId)
           pushed == Append(pendants, pendant)
           linked == ConnectToOrbs(connections, pendant, orbs)
           evicted == LimitPendants(pushed)
       IN IF evicted = <<>>
          THEN /\ pendants' = pushed
               /\ connections' = linked
               /\ UNCHANGED disposedPendants
          ELSE /\ pendants' = SpliceOut(pushed, evicted[1])
               /\ connections' = RemovePendantConnections(linked, evicted[1])
               /\ disposedPendants' = disposedPendants \o evicted
    /\ nextPendantId' = nextPendantId + 1
    /\ pendingPendants' = pendingPendants - 1
    /\ UNCHANGED <<orbs, wristAlias, isWristTracking, orbAttached, latestPlant, pendingOrbs, nextOrbId,
                   disposedOrbs>>
    /\ UNCHANGED gestureVars
    /\ pendantError' = FALSE
    /\ UNCHANGED <<envData, orbUserData, animationTime>>
    /\ UNCHANGED sessionVars

(* a createPendant that pushes the group before it awaits the texture *)
CreatePendantFailAfterPush ==
    /\ pendingPendants > 0
    /\ pendingPendants' = pendingPendants - 1
    /\ pendants' = Append(pendants, Pendant(nextPendantId))
    /\ nextPendantId' = nextPendantId + 1
    /\ UNCHANGED <<orbs, connections, wristAlias, isWristTracking,
                   orbAttached, latestPlant, pendingOrbs,
                   nextOrbId, disposedOrbs, disposedPendants>>
    /\ UNCHANGED gestureVars
    /\ pendantError' = TRUE
    /\ UNCHANGED <<envData, orbUserData, animationTime>>
    /\ UNCHANGED sessionVars

(* createPendant when the texture fails to load: the await rejects, the
   catch rethrows *)
CreatePendantFail ==
    /\ pendingPendants > 0
    /\ pendingPendants' = pendingPendants - 1
    /\ UNCHANGED <<orbs, pendants, connections, wristAlias, isWristTracking,
                   orbAttached, latestPlant, pendingOrbs,
                   nextOrbId, nextPendantId, disposedOrbs, disposedPendants>>
    /\ UNCHANGED gestureVars
    /\ pendantError' = TRUE
    /\ UNCHANGED <<envData, orbUserData, animationTime>>
    /\ UNCHANGED sessionVars

(* a removePendant that always takes the oldest pendant *)
RemovePendantOldest(pendant) ==
    /\ Len(disposedPendants) < nextPendantId - 1
    /\ pendants' = IF pendants = <<>> THEN pendants ELSE Tail(pendants)
    /\ connections' = RemovePendantConnections(connections, pendant)
    /\ disposedPendants' = Append(disposedPendants, pendant)
    /\ UNCHANGED <<orbs, wristAlias, isWristTracking, orbAttached,
                   latestPlant, pendingOrbs, pendingPendants, nextOrbId,
                   nextPendantId, disposedOrbs>>
    /\ UNCHANGED gestureVars
    /\ UNCHANGED dataVars

(* removePendant(pendant), for a member of the pool or not: the splice is
   guarded by indexOf, the filter of the lines and the dispose calls are
   not. As many calls are followed as pendants were constructed. *)
RemovePendant(pendant) ==
    /\ Len(disposedPendants) < nextPendantId - 1
    /\ pendants' = SpliceOut(pendants, pendant)
    /\ connections' = RemovePendantConnections(connections, pendant)
    /\ disposedPendants' = Append(disposedPendants, pendant)
    /\ UNCHANGED <<orbs, wristAlias, isWristTracking, orbAttached,
                   latestPlant, pendingOrbs, pendingPendants, nextOrbId,
                   nextPendantId, disposedOrbs>>
    /\ UNCHANGED gestureVars
    /\ UNCHANGED dataVars

(* attachPendantsToWrist(getAllPendants(), orbCount): every pendant flagged,
   its wristIndex orbCount + indexOf *)
AttachPendantsToWrist(orbCount) ==
    /\ pendantWrist' =
          [p \in (DOMAIN pendantWrist) \cup SeqToSet(pendants) |->
              IF p \in SeqToSet(pendants)
              THEN orbCount + (IndexOf(pendants, p) - 1)
              ELSE pendantWrist[p]]
    /\ UNCHANGED poolVars
    /\ UNCHANGED gestureVars
    /\ UNCHANGED <<pendantError, envData, orbUserData, animationTime,
                   plantSource, identifyError, framesInFlight,
                   frameScheduled>>
    /\ UNCHANGED <<apiVars, responses>>
    /\ UNCHANGED runVars

(* the slot each wrist update computes for an object it positions: for the
   i-th element of wristOrbs index i of wristOrbs.length
   (updateWristOrbPositions), for a flagged pendant of the pool its
   wristIndex of wristOrbs.length + the number of flagged pendants
   (updateWristPendantPosition); the angular offset is 2 pi index / total *)
WristSlots ==
    LET flagged == {p \in SeqToSet(pendants) : p \in DOMAIN pendantWrist}
    IN {[object |-> WristOrbs[i], index |-> i - 1,
         total |-> Len(WristOrbs)] : i \in 1..Len(WristOrbs)}
       \cup {[object |-> p, index |-> pendantWrist[p],
               total |-> Len(WristOrbs) + Cardinality(flagged)] :
                p \in flagged}

(* the first PendantCreator class, clearAll: this.pendants.forEach(pendant
   => this.removePendant(pendant)) walks the array that removePendant
   splices; the pendants the callback is called with, from index k on *)
RECURSIVE ClearAllVisited(_, _)
ClearAllVisited(pool, k) ==
    IF k > Len(pool) THEN <<>>
    ELSE <<pool[k]>> \o ClearAllVisited(SpliceOut(pool, pool[k]), k + 1)

(* the first PendantCreator class, clearAll: removePendant for the pendants
   visited, then both arrays replaced by [] *)
PendantClearAllFirst ==
    /\ disposedPendants' = disposedPendants \o ClearAllVisited(pendants, 1)
    /\ pendants' = <<>>
    /\ connections' = <<>>
    /\ UNCHANGED <<orbs, wristAlias, isWristTracking, orbAttached,
                   latestPlant, pendingOrbs, pendingPendants, nextOrbId,
                   nextPendantId, disposedOrbs>>
    /\ UNCHANGED gestureVars
    /\ UNCHANGED dataVars

(* clearAll: every line and every pendant disposed, both arrays replaced *)
PendantClearAllEffect ==
    /\ connections' = <<>>
    /\ disposedPendants' = disposedPendants \o pendants
    /\ pendants' = <<>>

PendantClearAll ==
    /\ PendantClearAllEffect
    /\ UNCHANGED <<orbs, wristAlias, isWristTracking, orbAttached, latestPlant, pendingOrbs, pendingPendants,
                   nextOrbId, nextPendantId, disposedOrbs>>
    /\ UNCHANGED gestureVars
    /\ UNCHANGED dataVars

(* a chain that does not close: no line from the last object *)
BraceletConnectionsOpen(objects) ==
    [i \in 1..(Len(objects) - 1) |->
        CreateConnection(objects[i], objects[i + 1])]

(* createBraceletConnections: the ring over objects *)
BraceletConnections(objects) ==
    [i \in 1..Len(objects) |->
        CreateConnection(objects[i], objects[(i % Len(objects)) + 1])]

(* the sequences handed to createBraceletConnections *)
BraceletInputs == {orbs \o pendants, pendants \o orbs}

CreateBraceletConnections(objects) ==
    /\ connections' = BraceletConnections(objects)
    /\ UNCHANGED <<orbs, pendants, wristAlias, isWristTracking, orbAttached, latestPlant, pendingOrbs, pendingPendants,
                   nextOrbId, nextPendantId, disposedOrbs, disposedPendants>>
    /\ UNCHANGED gestureVars
    /\ UNCHANGED dataVars

----------------------------------------------------------------------------
(* PlantDetector *)

(* how the request to the Plant.id function ends: an answer with a
   suggestion, an answer without one, a rejection *)
PlantIdOutcomes == {"match", "empty", "fails"}

(* how apiService.identifyPlantNet ends: an answer with a result, an answer
   without one, a rejection *)
PlantNetOutcomes == {"match", "empty", "fails"}

(* an inner catch that throws the error of the fallback *)
IdentifyPlantResultLastError(primary, fallback) ==
    IF primary = "match" THEN [source |-> "Plant.id", error |-> "none"]
    ELSE IF primary = "empty" THEN [source |-> "none", error |-> "none"]
    ELSE IF fallback = "match" THEN [source |-> "PlantNet", error |-> "none"]
    ELSE IF fallback = "empty" THEN [source |-> "none", error |-> "none"]
    ELSE [source |-> "none", error |-> "fallback"]

(* identifyPlant, real API mode: the source of the plant pushed ("none" when
   the call returns null or throws) and the error thrown *)
IdentifyPlantResult(primary, fallback) ==
    IF primary = "match" THEN [source |-> "Plant.id", error |-> "none"]
    ELSE IF primary = "empty" THEN [source |-> "none", error |-> "none"]
    ELSE IF fallback = "match" THEN [source |-> "PlantNet", error |-> "none"]
    ELSE IF fallback = "empty" THEN [source |-> "none", error |-> "none"]
    ELSE [source |-> "none", error |-> "primary"]

(* identifyPlant from the service requests on: a plant pushed is what
   getLatestPlant returns from then on, an error is thrown to the caller *)
IdentifyPlantEffect(primary, fallback) ==
    LET result == IdentifyPlantResult(primary, fallback)
    IN /\ latestPlant' = (latestPlant \/ result.source # "none")
       /\ plantSource' = IF result.source # "none" THEN result.source
                         ELSE plantSource
       /\ identifyError' = result.error
       /\ UNCHANGED <<orbs, pendants, connections, wristAlias,
                      isWristTracking, orbAttached, pendingOrbs,
                      pendingPendants, nextOrbId, nextPendantId,
                      disposedOrbs, disposedPendants>>
       /\ UNCHANGED gestureVars
       /\ UNCHANGED <<pendantError, envData, orbUserData, animationTime,
                      pendantWrist, framesInFlight, frameScheduled>>
       /\ UNCHANGED <<apiVars, responses>>

(* identifyPlant from call to return, no other call made meanwhile:
   isProcessing is false before and after *)
IdentifyPlant(primary, fallback) ==
    /\ ~isProcessing
    /\ IdentifyPlantEffect(primary, fallback)
    /\ UNCHANGED runVars

(* an identifyPlant that does not test isProcessing *)
IdentifyPlantCallUnguarded ==
    /\ isProcessing' = TRUE
    /\ identifying' = identifying + 1
    /\ UNCHANGED <<poolVars, gestureVars, apiVars, responses, isInitialized>>
    /\ UNCHANGED <<pendantError, envData, orbUserData, animationTime,
                   pendantWrist, plantSource, identifyError, framesInFlight,
                   frameScheduled>>

(* identifyPlant up to its first await: a call made while isProcessing
   returns null at once, any other sets isProcessing and suspends at the
   service request *)
IdentifyPlantCall ==
    IF isProcessing
    THEN UNCHANGED vars
    ELSE /\ isProcessing' = TRUE
         /\ identifying' = identifying + 1
         /\ UNCHANGED <<poolVars, gestureVars, apiVars, responses, isInitialized>>
         /\ UNCHANGED <<pendantError, envData, orbUserData, animationTime,
                        pendantWrist, plantSource, identifyError,
                        framesInFlight, frameScheduled>>

(* a suspended identifyPlant resumes, returns or throws, and its finally
   block resets isProcessing *)
IdentifyPlantEnd(primary, fallback) ==
    /\ identifying > 0
    /\ IdentifyPlantEffect(primary, fallback)
    /\ identifying' = identifying - 1
    /\ isProcessing' = FALSE
    /\ UNCHANGED isInitialized

(* the first successful identification by Plant.id *)
DetectPlant ==
    /\ ~latestPlant
    /\ IdentifyPlant("match", "fails")

----------------------------------------------------------------------------
(* APIService: the cache and the pending requests of getWeather and
   getAirQuality, which differ in the key prefix and the URL only *)

(* the cache keys of one location: weather_lat_lon, airquality_lat_lon *)
Keys == {"weather", "airquality"}

(* time that passes between two steps, in milliseconds: three gaps make
   cacheTimeout - 1 or cacheTimeout *)
ApiGaps == {99999, 100000}

nonApiVars == <<poolVars, gestureVars, pendantError, envData, orbUserData,
                animationTime, pendantWrist, plantSource, identifyError,
                framesInFlight, frameScheduled, runVars, responses>>

(* a validity test that accepts an entry of age cacheTimeout *)
IsCacheValidInclusive(key) ==
    /\ cache[key] # <<>>
    /\ apiNow - cache[key][1].timestamp <= cacheTimeout

(* isCacheValid *)
IsCacheValid(key) ==
    /\ cache[key] # <<>>
    /\ apiNow - cache[key][1].timestamp < cacheTimeout

(* a pending check that never finds a request *)
HasPendingNever(key) == FALSE

(* this.pendingRequests.has(cacheKey) *)
HasPending(key) == pendingRequests[key] # <<>>

(* fetches for key that the network has not answered *)
InFlight(key) ==
    Cardinality({i \in 1..Len(requests) :
                    requests[i].key = key /\ requests[i].status = "flying"})

(* getWeather / getAirQuality up to its return or its await: a valid entry
   is returned, else the pending promise is returned, else a fetch is issued,
   its promise stored and awaited *)
GetData(key) ==
    /\ IF IsCacheValid(key)
       THEN /\ apiReturn' = <<[key |-> key, how |-> "cache",
                               data |-> cache[key][1].data]>>
            /\ UNCHANGED <<pendingRequests, requests>>
       ELSE IF HasPending(key)
       THEN /\ apiReturn' = <<[key |-> key, how |-> "pending",
                               data |-> pendingRequests[key][1]]>>
            /\ UNCHANGED <<pendingRequests, requests>>
       ELSE /\ Len(requests) < MaxRequests
            /\ requests' = Append(requests,
                                  [key |-> key, status |-> "flying"])
            /\ pendingRequests' =
                  [pendingRequests EXCEPT ![key] = <<Len(requests) + 1>>]
            /\ apiReturn' = <<[key |-> key, how |-> "fetch",
                               data |-> Len(requests) + 1]>>
    /\ UNCHANGED <<apiNow, cache>>
    /\ UNCHANGED nonApiVars

(* the request promise settles: the response was ok and parsed, or not *)
FetchSettle(id, ok) ==
    /\ requests[id].status = "flying"
    /\ requests' = [requests EXCEPT ![id].status =
                       IF ok THEN "resolved" ELSE "rejected"]
    /\ UNCHANGED <<apiNow, cache, pendingRequests, apiReturn>>
    /\ UNCHANGED nonApiVars

(* a continuation that leaves the entry of a failed request in the map *)
PendingAfterSettleLeak(key, status) ==
    IF status = "resolved" THEN [pendingRequests EXCEPT ![key] = <<>>]
    ELSE pendingRequests

(* this.pendingRequests.delete(cacheKey), after the await and in the catch *)
PendingAfterSettle(key, status) == [pendingRequests EXCEPT ![key] = <<>>]

(* the call that issued request id resumes after its await: the pending
   entry is deleted, the data cached with Date.now() and returned, or the
   error thrown again *)
IssuerResume(id) ==
    /\ requests[id].status \in {"resolved", "rejected"}
    /\ LET key == requests[id].key
           status == requests[id].status
       IN /\ pendingRequests' = PendingAfterSettle(key, status)
          /\ cache' = IF status = "resolved"
                      THEN [cache EXCEPT ![key] =
                              <<[data |-> id, timestamp |-> apiNow]>>]
                      ELSE cache
          /\ apiReturn' = <<[key |-> key,
                             how |-> IF status = "resolved" THEN "data"
                                     ELSE "error",
                             data |-> id]>>
    /\ requests' = [requests EXCEPT ![id].status = "done"]
    /\ UNCHANGED apiNow
    /\ UNCHANGED nonApiVars

(* time passes *)
ApiTick(dt) ==
    /\ apiNow + dt <= MaxApiTime
    /\ apiNow' = apiNow + dt
    /\ UNCHANGED <<cache, pendingRequests, requests, apiReturn>>
    /\ UNCHANGED nonApiVars

----------------------------------------------------------------------------
(* ARPlantGame handlers (the session is running) *)

(* onPinchGesture up to its await: createOrb is called and suspends *)
OnPinchGestureEffect ==
    /\ CreateOrbBegin
    /\ UNCHANGED <<orbs, pendants, connections, wristAlias, isWristTracking,
                   orbAttached, latestPlant, pendingPendants,
                   nextOrbId, nextPendantId, disposedOrbs, disposedPendants>>

(* onOpenHandGesture: without a plant attach all orbs, else createPendant *)
OnOpenHandGestureEffect ==
    IF ~latestPlant
    THEN /\ AttachOrbsToWristEffect
         /\ UNCHANGED <<orbs, pendants, connections,
                        latestPlant, pendingOrbs, pendingPendants, nextOrbId,
                        nextPendantId, disposedOrbs, disposedPendants>>
    ELSE /\ CreatePendantBegin
         /\ UNCHANGED <<orbs, pendants, connections, wristAlias,
                        isWristTracking, orbAttached,
                        latestPlant, pendingOrbs, nextOrbId, nextPendantId,
                        disposedOrbs, disposedPendants>>

(* onPeaceGesture: clearAllOrbs, then pendantCreator.clearAll *)
OnPeaceGesture ==
    /\ ClearAllOrbsEffect
    /\ PendantClearAllEffect
    /\ UNCHANGED << latestPlant, pendingOrbs, pendingPendants,
                   nextOrbId, nextPendantId>>
    /\ UNCHANGED gestureVars
    /\ UNCHANGED dataVars

(* the number of createOrb / createPendant calls is bounded *)
CanStartOrb ==
    /\ pendingOrbs < MaxPending
    /\ (nextOrbId - 1) + pendingOrbs < MaxOrbsCreated

CanStartPendant ==
    /\ pendingPendants < MaxPending
    /\ (nextPendantId - 1) + pendingPendants < MaxPendantsCreated

(* createOrbManual up to its await *)
CreateOrbManual ==
    /\ CanStartOrb
    /\ OnPinchGestureEffect
    /\ UNCHANGED gestureVars
    /\ UNCHANGED dataVars

(* createPendantManual up to its await; without a plant it alerts and
   returns *)
CreatePendantManual ==
    /\ latestPlant
    /\ CanStartPendant
    /\ CreatePendantBegin
    /\ UNCHANGED <<orbs, pendants, connections, wristAlias, isWristTracking,
                   orbAttached, latestPlant, pendingOrbs,
                   nextOrbId, nextPendantId, disposedOrbs, disposedPendants>>
    /\ UNCHANGED gestureVars
    /\ UNCHANGED dataVars

(* createPendant called without a plant: throws, nothing is touched *)
CreatePendantNoPlant ==
    /\ ~latestPlant
    /\ CreatePendantBegin
    /\ UNCHANGED <<orbs, pendants, connections, wristAlias, isWristTracking,
                   orbAttached, latestPlant, pendingOrbs,
                   nextOrbId, nextPendantId, disposedOrbs, disposedPendants>>
    /\ UNCHANGED gestureVars
    /\ pendantError' = TRUE
    /\ UNCHANGED <<envData, orbUserData, animationTime>>
    /\ UNCHANGED sessionVars

(* an open-hand event delivered to onOpenHandGesture *)
OnOpenHandGesture ==
    /\ latestPlant => CanStartPendant
    /\ OnOpenHandGestureEffect
    /\ UNCHANGED gestureVars
    /\ UNCHANGED dataVars

----------------------------------------------------------------------------
(* The frame loop *)

(* an update that drops the lines whose orb left the pool *)
PendantUpdatePruning ==
    /\ animationTime < MaxTicks
    /\ animationTime' = animationTime + 1
    /\ connections' = SelectSeq(connections,
                                LAMBDA c : c.orb \in SeqToSet(orbs))
    /\ UNCHANGED <<orbs, pendants, wristAlias, isWristTracking, orbAttached,
                   latestPlant, pendingOrbs, pendingPendants, nextOrbId,
                   nextPendantId, disposedOrbs, disposedPendants>>
    /\ UNCHANGED gestureVars
    /\ UNCHANGED <<pendantError, envData, orbUserData>>
    /\ UNCHANGED sessionVars

(* OrbCreator.update: forEach over orbs advances each shader time and floats
   the free orbs, updateWristOrbPositions places the wrist orbs; the arrays
   and the flags are only read *)
OrbUpdate ==
    /\ animationTime < MaxTicks
    /\ animationTime' = IF Len(orbs) > 0 THEN animationTime + 1
                        ELSE animationTime
    /\ UNCHANGED poolVars
    /\ UNCHANGED gestureVars
    /\ UNCHANGED <<pendantError, envData, orbUserData>>
    /\ UNCHANGED sessionVars

(* update, "Update line positions": the geometry is reset from
   userData.pendant || userData.obj1 and userData.orb || userData.obj2 *)
UpdateLine(connection) ==
    [connection EXCEPT !.points =
        <<IF connection.pendant # NoObject THEN connection.pendant
          ELSE connection.obj1,
          IF connection.orb # NoObject THEN connection.orb
          ELSE connection.obj2>>]

(* PendantCreator.update: forEach over pendants rotates each pendant,
   forEach over connections resets each line's points and opacity; the
   arrays keep their elements *)
PendantUpdate ==
    /\ animationTime < MaxTicks
    /\ animationTime' = IF Len(pendants) > 0 \/ Len(connections) > 0
                        THEN animationTime + 1 ELSE animationTime
    /\ connections' = [i \in 1..Len(connections) |->
                          UpdateLine(connections[i])]
    /\ UNCHANGED <<orbs, pendants, wristAlias, isWristTracking, orbAttached,
                   latestPlant, pendingOrbs, pendingPendants, nextOrbId,
                   nextPendantId, disposedOrbs, disposedPendants>>
    /\ UNCHANGED gestureVars
    /\ UNCHANGED <<pendantError, envData, orbUserData>>
    /\ UNCHANGED sessionVars

(* animate: HandTracking defines no getWristLandmarks, so the call throws a
   TypeError and the frame ends before orbCreator.update and
   pendantCreator.update are reached *)
Animate == UNCHANGED vars

----------------------------------------------------------------------------
(* A small scene: the same operations with fewer objects *)

CanStartScenePendant ==
    /\ pendingPendants < MaxPending
    /\ (nextPendantId - 1) + pendingPendants < ScenePendants

SceneCreateOrb ==
    /\ (nextOrbId - 1) + pendingOrbs < SceneOrbs
    /\ CreateOrbManual

SceneCreatePendant == CanStartScenePendant /\ CreatePendantManual

SceneOpenHand ==
    /\ latestPlant => CanStartScenePendant
    /\ OnOpenHandGesture

----------------------------------------------------------------------------
(* HandTracking: classifier *)

(* thresholds written as literals in isOpenHand and isFist *)
thumbExtendedMin == 50

thumbClosedMax == 100

(* the landmarks the classifier reads: thumb IP and tip, index MCP, and the
   PIP and tip of the four fingers *)
UsedLandmarks == {3, 4, 5, 6, 8, 10, 12, 14, 16, 18, 20}

Fingers == {[tip |-> 8, pip |-> 6], [tip |-> 12, pip |-> 10],
            [tip |-> 16, pip |-> 14], [tip |-> 20, pip |-> 18]}

Abs(a) == IF a < 0 THEN 0 - a ELSE a

Sq(a) == a * a

(* the radicand of Math.sqrt(dx^2 + dy^2 + dz^2) *)
Dist2(p, q) == Sq(p.x - q.x) + Sq(p.y - q.y) + Sq(p.z - q.z)

(* Math.sqrt(d2) < t: for t >= 0 the same as d2 < t*t; a comparison with
   undefined is false *)
SqrtLessThan(d2, t) == IF t = Undefined THEN FALSE ELSE d2 < Sq(t[1])

(* a pinch test that is not strict *)
IsPinchInclusive(l) == Dist2(l[4], l[8]) <= Sq(pinchThreshold)

IsPinch(l) == SqrtLessThan(Dist2(l[4], l[8]), Defined(pinchThreshold))

ExtendedCount(l) ==
    Cardinality({f \in Fingers : l[f.tip].y < l[f.pip].y})
    + (IF Abs(l[4].x - l[3].x) > thumbExtendedMin THEN 1 ELSE 0)

(* an open-hand rule content with two extended digits *)
IsOpenHandLoose(l) == ExtendedCount(l) >= 2

IsOpenHand(l) == ExtendedCount(l) >= 4

ClosedCount(l) ==
    Cardinality({f \in Fingers : l[f.tip].y > l[f.pip].y})
    + (IF Abs(l[4].x - l[5].x) < thumbClosedMax THEN 1 ELSE 0)

IsFist(l) ==
    IF SqrtLessThan(Dist2(l[4], l[8]), fistPinchExclusion)
    THEN FALSE
    ELSE ClosedCount(l) >= 4

(* a rule order that tries the open hand first *)
ClassifyPoseOpenFirst(l) ==
    IF IsOpenHand(l) THEN "openHand"
    ELSE IF IsPinch(l) THEN "pinch"
    ELSE IF IsFist(l) THEN "fist"
    ELSE Null

(* detectGesture after the cooldown check *)
ClassifyPose(l) ==
    IF IsPinch(l) THEN "pinch"
    ELSE IF IsOpenHand(l) THEN "openHand"
    ELSE IF IsFist(l) THEN "fist"
    ELSE Null

(* a cooldown check that never suppresses *)
InCooldownNever(t, last) == FALSE

(* detectGesture, "Check cooldown" *)
InCooldown(t, last) == t - last < cooldownMs

DetectGesture(l, t, last) ==
    IF InCooldown(t, last) THEN Null ELSE ClassifyPose(l)

----------------------------------------------------------------------------
(* HandTracking: debouncer *)

(* a firing test that forgets the null check *)
ShouldFireOnChange(gesture, current) == gesture # current

(* onResults: if (gesture && gesture !== this.currentGesture) *)
ShouldFire(gesture, current) == gesture # Null /\ gesture # current

(* a tracking loss that keeps the remembered gesture *)
GestureAfterLossKept(current) == current

(* onResults, no landmarks: this.currentGesture = null *)
GestureAfterLoss(current) == Null

(* handleGesture: lastGestureTime, then the callbacks registered by
   ARPlantGame.start: pinch and openHand (on('peace') registers nothing,
   nobody registers for fist) *)
HandleGesture(gesture, t) ==
    /\ lastGestureTime' = t
    /\ eventLog' = Append(eventLog, <<gesture, t>>)
    /\ CASE gesture = "pinch" -> OnPinchGestureEffect
         [] gesture = "openHand" -> OnOpenHandGestureEffect
         [] OTHER -> UNCHANGED poolVars

(* onResults, called dt ms after the previous callback: what it writes *)
OnResultsEffect(results, dt) ==
    /\ now + dt <= StartTime + MaxElapsed
    /\ now' = now + dt
    /\ IF results = NoHand
       THEN /\ handLandmarks' = NoHand
            /\ currentGesture' = GestureAfterLoss(currentGesture)
            /\ UNCHANGED <<lastGestureTime, eventLog>>
            /\ UNCHANGED poolVars
       ELSE LET gesture == DetectGesture(results, now + dt, lastGestureTime)
            IN /\ handLandmarks' = results
               /\ IF ShouldFire(gesture, currentGesture)
                  THEN HandleGesture(gesture, now + dt)
                  ELSE /\ UNCHANGED <<lastGestureTime, eventLog>>
                       /\ UNCHANGED poolVars
               /\ currentGesture' = gesture
    /\ UNCHANGED <<framePeriod, cls>>

(* one tracking callback, whatever the frame loop is doing *)
OnResults(results, dt) ==
    /\ OnResultsEffect(results, dt)
    /\ UNCHANGED dataVars

(* a processFrame that requests the next animation frame before the send
   has completed *)
ProcessFrameEager(ready) ==
    /\ frameScheduled
    /\ framesInFlight' = IF ready THEN framesInFlight + 1 ELSE framesInFlight
    /\ frameScheduled' = TRUE
    /\ UNCHANGED poolVars
    /\ UNCHANGED gestureVars
    /\ UNCHANGED <<pendantError, envData, orbUserData, animationTime,
                   pendantWrist, plantSource, identifyError>>
    /\ UNCHANGED <<apiVars, responses>>
    /\ UNCHANGED runVars

(* processFrame up to its await: with the video playing (ready) a frame is
   sent and the callback suspends; otherwise the next animation frame is
   requested at once *)
ProcessFrame(ready) ==
    /\ frameScheduled
    /\ framesInFlight' = IF ready THEN framesInFlight + 1 ELSE framesInFlight
    /\ frameScheduled' = ~ready
    /\ UNCHANGED poolVars
    /\ UNCHANGED gestureVars
    /\ UNCHANGED <<pendantError, envData, orbUserData, animationTime,
                   pendantWrist, plantSource, identifyError>>
    /\ UNCHANGED <<apiVars, responses>>
    /\ UNCHANGED runVars

(* hands.send resolves: the results callback has run, processFrame resumes
   and requests the next animation frame *)
SendComplete(results, dt) ==
    /\ framesInFlight > 0
    /\ OnResultsEffect(results, dt)
    /\ framesInFlight' = framesInFlight - 1
    /\ frameScheduled' = TRUE
    /\ UNCHANGED <<pendantError, envData, orbUserData, animationTime,
                   pendantWrist, plantSource, identifyError>>
    /\ UNCHANGED <<apiVars, responses>>
    /\ UNCHANGED runVars

(* stop: the requested animation frame, if any, is cancelled and
   isInitialized cleared; a processFrame suspended at its await is not
   touched *)
Stop ==
    /\ isInitialized
    /\ frameScheduled' = FALSE
    /\ isInitialized' = FALSE
    /\ UNCHANGED <<poolVars, gestureVars, apiVars, responses, isProcessing, identifying>>
    /\ UNCHANGED <<pendantError, envData, orbUserData, animationTime,
                   pendantWrist, plantSource, identifyError, framesInFlight>>

(* hands.send rejects: processFrame has no catch, the await throws and no
   further animation frame is requested *)
SendFail ==
    /\ framesInFlight > 0
    /\ framesInFlight' = framesInFlight - 1
    /\ UNCHANGED frameScheduled
    /\ UNCHANGED poolVars
    /\ UNCHANGED gestureVars
    /\ UNCHANGED <<pendantError, envData, orbUserData, animationTime,
                   pendantWrist, plantSource, identifyError>>
    /\ UNCHANGED <<apiVars, responses>>
    /\ UNCHANGED runVars

----------------------------------------------------------------------------
(* Hand frames *)

IndexTipX == 500

IndexTipY == 500

(* A frame: thumb tip at (dx, dy, dz) from the index tip, thumb IP at e and
   index MCP at m from the thumb tip along x, and for finger i the tip at
   r[i] below its PIP joint along y *)
MakeFrame(dx, dy, dz, e, m, r) ==
    LET P(x, y, z) == [x |-> x, y |-> y, z |-> z]
        tipOf == [i \in 1..4 |-> 4 + 4 * i]
        pipOf == [i \in 1..4 |-> 2 + 4 * i]
    IN [k \in UsedLandmarks |->
          IF k = 4 THEN P(IndexTipX + dx, IndexTipY + dy, dz)
          ELSE IF k = 3 THEN P(IndexTipX + dx + e, IndexTipY + dy, dz)
          ELSE IF k = 5 THEN P(IndexTipX + dx + m, IndexTipY, 0)
          ELSE IF \E i \in 1..4 : tipOf[i] = k THEN P(IndexTipX, IndexTipY, 0)
          ELSE LET i == CHOOSE i \in 1..4 : pipOf[i] = k
               IN P(IndexTipX, IndexTipY - r[i], 0)]

Relations == {-10, 0, 10}

ClassifyFrames ==
    {MakeFrame(dx, dy, dz, e, m, r) :
        dx \in {0, 30, 40, 50, 120}, dy \in {0, 20, 30, 40}, dz \in {0, 20},
        e \in {-51, 0, 50, 51}, m \in {-100, 0, 99, 100},
        r \in [1..4 -> Relations]}

PinchFrame == MakeFrame(0, 0, 0, 0, 100, <<0, 0, 0, 0>>)

OpenFrame == MakeFrame(120, 0, 0, 51, 100, <<-10, -10, -10, -10>>)

FistFrame == MakeFrame(120, 0, 0, 0, 0, <<10, 10, 10, 10>>)

NoneFrame == MakeFrame(120, 0, 0, 0, 100, <<0, 0, 0, 0>>)

PinchOpenFrame == MakeFrame(0, 0, 0, 51, 100, <<-10, -10, -10, -10>>)

(* the peace sign: index and middle finger extended, ring finger and pinky
   closed, the thumb tucked in, away from the index tip *)
PeaceFrame == MakeFrame(120, 0, 0, 0, 0, <<-10, -10, 10, 10>>)

GestureFrames ==
    {PinchFrame, OpenFrame, FistFrame, NoneFrame, PinchOpenFrame, PeaceFrame}

(* gaps between two tracking callbacks *)
FrameGaps == {250, 499, 500}

(* frame periods of a fixed-rate run, from 50 to 4 frames per second: up to
   cooldownMs / 2, a slower loop steps over a cooldown expiry within the
   window *)
HoldPeriods == {20, 25, 33, 50, 100, 125, 250}

(* the length of a hold: 3 x cooldownMs *)
HoldWindow == 3 * cooldownMs

----------------------------------------------------------------------------
(* Specifications *)

InitPools ==
    /\ orbs = <<>>
    /\ pendants = <<>>
    /\ connections = <<>>
    /\ wristAlias = FALSE
    /\ isWristTracking = FALSE
    /\ orbAttached = {}
    /\ latestPlant = FALSE
    /\ pendingOrbs = 0
    /\ pendingPendants = 0
    /\ nextOrbId = 1
    /\ nextPendantId = 1
    /\ disposedOrbs = <<>>
    /\ disposedPendants = <<>>

InitGesture ==
    /\ now = StartTime
    /\ lastGestureTime = 0
    /\ currentGesture = Null
    /\ handLandmarks = NoHand
    /\ eventLog = <<>>
    /\ cls = <<>>

(* the services answer with a mild clear day *)
MildDay ==
    [weatherData |-> [temperature |-> 200, condition |-> clear],
     airQualityData |-> [aqiUS |-> 50]]

(* no pendant on the wrist, no plant identified, the frame loop about to
   make its first call of processFrame *)
InitSession ==
    /\ pendantWrist = <<>>
    /\ plantSource = "none"
    /\ identifyError = "none"
    /\ framesInFlight = 0
    /\ frameScheduled = TRUE
    /\ apiNow = 0
    /\ cache = [key \in Keys |-> <<>>]
    /\ pendingRequests = [key \in Keys |-> <<>>]
    /\ requests = <<>>
    /\ apiReturn = <<>>
    /\ isProcessing = FALSE
    /\ identifying = 0
    /\ isInitialized = TRUE
    /\ responses = <<>>

InitData ==
    /\ pendantError = FALSE
    /\ envData = MildDay
    /\ orbUserData = <<>>
    /\ animationTime = 0
    /\ InitSession

Init ==
    /\ InitPools
    /\ InitGesture
    /\ InitData
    /\ framePeriod = 0

(* the operations of the pools and of the connection list, every creation
   succeeding; the failing creations are followed in the small scene *)
Next ==
    \/ DetectPlant
    \/ CreateOrbManual
    \/ CreateOrbFinish
    \/ CreatePendantManual
    \/ CreatePendantFinish
    \/ OnPeaceGesture

Spec == Init /\ [][Next]_vars

(* what the buttons and the registered gestures can start *)
NextUI ==
    \/ DetectPlant
    \/ CreateOrbManual
    \/ CreateOrbFinish
    \/ CreatePendantManual
    \/ CreatePendantFinish
    \/ OnOpenHandGesture

SpecUI == Init /\ [][NextUI]_vars

(* every operation of the two creators and the frame loop, few objects *)
NextScene ==
    \/ DetectPlant
    \/ SceneCreateOrb
    \/ CreateOrbFinish
    \/ SceneCreatePendant
    \/ CreatePendantNoPlant
    \/ CreatePendantFinish
    \/ CreatePendantFail
    \/ SceneOpenHand
    \/ ClearAllOrbs
    \/ PendantClearAll
    \/ OnPeaceGesture
    \/ \E objects \in BraceletInputs : CreateBraceletConnections(objects)
    \/ OrbUpdate
    \/ PendantUpdate
    \/ Animate

SpecScene == Init /\ [][NextScene]_vars

(* createOrb and createPendant calls while removals and the wrist are
   followed *)
WristCreateOrb ==
    /\ (nextOrbId - 1) + pendingOrbs < WristObjects
    /\ CreateOrbManual

WristOpenHand ==
    /\ latestPlant => (nextPendantId - 1) + pendingPendants < WristObjects
    /\ OnOpenHandGesture

(* identifications and the wrist operations, few objects *)
NextWrist ==
    \/ \E primary \in PlantIdOutcomes : \E fallback \in PlantNetOutcomes :
          IdentifyPlant(primary, fallback)
    \/ IdentifyPlantCall
    \/ \E primary \in PlantIdOutcomes : \E fallback \in PlantNetOutcomes :
          IdentifyPlantEnd(primary, fallback)
    \/ WristCreateOrb
    \/ CreateOrbFinish
    \/ WristOpenHand
    \/ CreatePendantFinish
    \/ DetachOrbsFromWrist
    \/ \E orbCount \in {0, Len(WristOrbs)} : AttachPendantsToWrist(orbCount)

SpecWrist == Init /\ [][NextWrist]_vars

(* creations and direct calls of removeOrb and removePendant with any
   object constructed so far, few objects *)
NextRemove ==
    \/ DetectPlant
    \/ WristCreateOrb
    \/ CreateOrbFinish
    \/ WristOpenHand
    \/ CreatePendantFinish
    \/ \E n \in 1..(nextOrbId - 1) : RemoveOrb(Orb(n))
    \/ \E n \in 1..(nextPendantId - 1) : RemovePendant(Pendant(n))
    \/ PendantClearAllFirst

SpecRemove == Init /\ [][NextRemove]_vars

(* indices at, next to and between the thresholds *)
AqiInputs == {a \in 0..MaxAqi : a % 50 \in {0, 1, 25, 49}}

(* tenths of a degree below, at, next to and above minTemp and maxTemp,
   and around the fallback temperature *)
TemperatureInputs ==
    {-300, -201, -200, -199, 0, 199, 200, 201, 449, 450, 451, 600}

ConditionWords ==
    {clear, clouds, rain, drizzle, thunderstorm, snow, mist,
     <<"f", "o", "g">>, <<>>,
     <<"c", "o", "n", "s", "t", "r", "u", "c", "t", "o", "r">>}

ConditionInputs ==
    UNION {{w, Capitalized(w), ToUpperCase(w)} : w \in ConditionWords}

EnvInputs ==
    {[weatherData |-> [temperature |-> t, condition |-> c],
      airQualityData |-> [aqiUS |-> a]] :
        t \in TemperatureInputs, c \in ConditionInputs, a \in AqiInputs}

(* one orb created from whatever the services answer, or fail to answer *)
InitVisual ==
    /\ InitPools
    /\ InitGesture
    /\ framePeriod = 0
    /\ pendantError = FALSE
    /\ envData \in EnvInputs
    /\ orbUserData = <<>>
    /\ animationTime = 0
    /\ InitSession

CreateFirstOrb ==
    /\ nextOrbId = 1
    /\ pendingOrbs = 0
    /\ CreateOrbManual

NextVisual ==
    \/ CreateFirstOrb
    \/ CreateOrbFinish

SpecVisual == InitVisual /\ [][NextVisual]_vars

(* the services answer with a hot thunderstorm in bad air *)
StormyDay ==
    [weatherData |-> [temperature |-> 315, condition |-> Capitalized(thunderstorm)],
     airQualityData |-> [aqiUS |-> 162]]

InitLive ==
    /\ InitPools
    /\ InitGesture
    /\ framePeriod = 0
    /\ pendantError = FALSE
    /\ envData = StormyDay
    /\ orbUserData = <<>>
    /\ animationTime = 0
    /\ InitSession

(* pinches, tracking losses and clears while creations await their data;
   a suspended createOrb resumes once its promises settle, which the
   geolocation timeout and the browser's fetch guarantee *)
NextLive ==
    \/ \E results \in {PinchFrame, NoneFrame, NoHand} : \E dt \in FrameGaps :
          OnResults(results, dt)
    \/ CreateOrbFinish
    \/ OnPeaceGesture

SpecLive == InitLive /\ [][NextLive]_vars /\ WF_vars(CreateOrbFinish)

(* calls of getWeather and getAirQuality at any moment, requests that
   succeed or fail, and time passing *)
NextApi ==
    \/ \E key \in Keys : GetData(key)
    \/ \E id \in 1..Len(requests) : \E ok \in BOOLEAN : FetchSettle(id, ok)
    \/ \E id \in 1..Len(requests) : IssuerResume(id)
    \/ \E dt \in ApiGaps : ApiTick(dt)

SpecApi == Init /\ [][NextApi]_vars

(* the frame loop started by initialize: frames are sent, complete with a
   tracking callback or fail *)
NextLoop ==
    \/ \E ready \in BOOLEAN : ProcessFrame(ready)
    \/ \E results \in {PinchFrame, NoneFrame, NoHand} : \E dt \in FrameGaps :
          SendComplete(results, dt)
    \/ SendFail
    \/ Stop
    \/ CreateOrbFinish

SpecLoop == Init /\ [][NextLoop]_vars

(* tracking callbacks at arbitrary gaps, and the creations they start *)
NextGesture ==
    \/ \E results \in GestureFrames \cup {NoHand} : \E dt \in FrameGaps :
          OnResults(results, dt)
    \/ DetectPlant
    \/ CreateOrbFinish
    \/ CreatePendantFinish

SpecGesture == Init /\ [][NextGesture]_vars

(* one pinch pose held in front of a frame loop of a fixed period *)
InitHold ==
    /\ InitPools
    /\ InitGesture
    /\ InitData
    /\ framePeriod \in HoldPeriods

HoldFrame ==
    LET dt == IF handLandmarks = NoHand THEN 0 ELSE framePeriod
    IN /\ (now + dt) - StartTime < HoldWindow
       /\ OnResults(PinchFrame, dt)

SpecHold == InitHold /\ [][HoldFrame]_vars

(* the classifier applied to one frame, outside the cooldown *)
InitClassify ==
    /\ InitPools
    /\ InitData
    /\ now = StartTime
    /\ lastGestureTime = 0
    /\ currentGesture = Null
    /\ handLandmarks \in ClassifyFrames
    /\ eventLog = <<>>
    /\ cls = <<>>
    /\ framePeriod = 0

ClassifyStep ==
    /\ cls = <<>>
    /\ cls' = <<[pinch |-> IsPinch(handLandmarks),
                 openHand |-> IsOpenHand(handLandmarks),
                 fist |-> IsFist(handLandmarks),
                 gesture |-> DetectGesture(handLandmarks, now,
                                           lastGestureTime)]>>
    /\ UNCHANGED poolVars
    /\ UNCHANGED <<now, lastGestureTime, currentGesture, handLandmarks,
                   eventLog, framePeriod>>
    /\ UNCHANGED dataVars

SpecClassify == InitClassify /\ [][ClassifyStep]_vars

----------------------------------------------------------------------------
(* Properties *)

LiveObjects == SeqToSet(orbs) \cup SeqToSet(pendants)

(* C1: in every reachable state the orb pool holds at most maxOrbs orbs and
   the pendant pool at most maxPendants pendants, whatever the interleaving
   of creations (several awaiting data at once), evictions and clears *)
C1_PoolsBounded ==
    /\ Len(orbs) <= maxOrbs
    /\ Len(pendants) <= maxPendants

(* both pools full, the first orb evicted by an overflowing insertion while
   a pendant created before that eviction is still alive *)
C1_Witness ==
    /\ Len(orbs) = maxOrbs
    /\ Len(pendants) = maxPendants
    /\ disposedOrbs = <<Orb(1)>>
    /\ disposedPendants # <<>>
    /\ \E i \in 1..Len(connections) : connections[i].orb = Orb(1)

(* C2: every Connection of the connection list names two endpoints that are
   both members of the orb pool or of the pendant pool *)
C2_NoDanglingConnection ==
    \A i \in 1..Len(connections) :
        /\ connections[i].obj1 \in LiveObjects
        /\ connections[i].obj2 \in LiveObjects

(* C3: after n > capacity insertions into an initially empty pool the pool
   holds exactly the capacity most recent objects in insertion order, the
   n - capacity oldest objects were disposed, oldest first, one per
   overflowing insertion, and the newest object is among the survivors *)
C3_FifoEviction ==
    LET n == nextOrbId - 1
        m == nextPendantId - 1
    IN /\ n > maxOrbs =>
            /\ orbs = [i \in 1..maxOrbs |-> Orb(n - maxOrbs + i)]
            /\ disposedOrbs = [i \in 1..(n - maxOrbs) |-> Orb(i)]
       /\ m > maxPendants =>
            /\ pendants = [i \in 1..maxPendants |-> Pendant(m - maxPendants + i)]
            /\ disposedPendants = [i \in 1..(m - maxPendants) |-> Pendant(i)]

(* capacity + 1 orbs and capacity + 1 pendants have been inserted *)
C3_Witness ==
    /\ nextOrbId - 1 > maxOrbs
    /\ nextPendantId - 1 > maxPendants
    /\ Len(orbs) = maxOrbs
    /\ Len(pendants) = maxPendants

(* C4: two consecutive handleGesture invocations are at least cooldownMs
   apart, and a frame processed inside the cooldown leaves the remembered
   gesture at none whatever its pose *)
C4_EventsSpaced ==
    /\ \A i \in 1..(Len(eventLog) - 1) :
          eventLog[i+1][2] - eventLog[i][2] >= cooldownMs
    /\ (now > lastGestureTime /\ now - lastGestureTime < cooldownMs)
          => currentGesture = Null

(* two events exactly cooldownMs apart, then a pinch frame inside the
   cooldown of the second *)
C4_Witness ==
    /\ Len(eventLog) >= 2
    /\ eventLog[2][2] - eventLog[1][2] = cooldownMs
    /\ handLandmarks = PinchFrame
    /\ now > lastGestureTime
    /\ now - lastGestureTime < cooldownMs
    /\ currentGesture = Null

(* the hold is over: the next frame would fall outside the window *)
HoldDone ==
    /\ handLandmarks # NoHand
    /\ (now + framePeriod) - StartTime >= HoldWindow

(* C5: a pinch pose held for 3 x cooldownMs in front of a fixed-rate frame
   loop produces pinch events spaced cooldownMs apart, within one frame
   period, and exactly 3 of them by the end of the hold *)
C5_HoldRefires ==
    /\ \A i \in 1..Len(eventLog) : eventLog[i][1] = "pinch"
    /\ \A i \in 1..(Len(eventLog) - 1) :
          /\ eventLog[i+1][2] - eventLog[i][2] >= cooldownMs
          /\ eventLog[i+1][2] - eventLog[i][2] <= cooldownMs + framePeriod
    /\ HoldDone => Len(eventLog) = 3

(* a hold at 30 frames per second is over and has fired 3 times *)
C5_Witness ==
    /\ HoldDone
    /\ framePeriod = 33
    /\ Len(eventLog) = 3
    /\ eventLog[2][2] - eventLog[1][2] > cooldownMs

(* the step is a tracking callback that delivered landmarks *)
FrameStep == now' # now /\ handLandmarks' # NoHand

(* C6: a pinch frame that follows a non-matching frame (or no hand) at
   least cooldownMs after the previous event emits exactly one pinch event,
   and the non-matching frame that follows it emits none *)
C6_SingleShot ==
    [][/\ (/\ FrameStep
           /\ ClassifyPose(handLandmarks') = "pinch"
           /\ (handLandmarks = NoHand \/ ClassifyPose(handLandmarks) = Null)
           /\ now' - lastGestureTime >= cooldownMs)
          => eventLog' = Append(eventLog, <<"pinch", now'>>)
       /\ (FrameStep /\ ClassifyPose(handLandmarks') = Null)
          => eventLog' = eventLog]_vars

(* two isolated pinch frames, each followed by a non-matching frame, far
   more than cooldownMs apart: two events *)
C6_Witness ==
    /\ Len(eventLog) = 2
    /\ eventLog[1][1] = "pinch"
    /\ eventLog[2][1] = "pinch"
    /\ eventLog[2][2] - eventLog[1][2] >= 2 * cooldownMs
    /\ handLandmarks = NoneFrame
    /\ currentGesture = Null
    /\ now > lastGestureTime

(* C7: a tracking result without landmarks sets the remembered gesture to
   none in that step, leaves lastGestureTime unchanged and emits no event;
   landmarks that reappear inside the cooldown emit no event either *)
C7_TrackingLoss ==
    [][/\ (now' # now /\ handLandmarks' = NoHand)
          => /\ currentGesture' = Null
             /\ lastGestureTime' = lastGestureTime
             /\ eventLog' = eventLog
       /\ (/\ FrameStep
           /\ handLandmarks = NoHand
           /\ now' - lastGestureTime < cooldownMs)
          => /\ eventLog' = eventLog
             /\ lastGestureTime' = lastGestureTime]_vars

(* tracking was lost inside the cooldown of an event *)
C7_Witness ==
    /\ handLandmarks = NoHand
    /\ currentGesture = Null
    /\ Len(eventLog) >= 1
    /\ lastGestureTime = eventLog[Len(eventLog)][2]
    /\ now > lastGestureTime
    /\ now - lastGestureTime < cooldownMs

(* C8: outside the cooldown the gesture returned is the first of pinch,
   open hand, fist whose rule matches, none when no rule matches; a frame
   matching both the pinch and the open-hand rule is a pinch *)
C8_RuleOrder ==
    cls # <<>> =>
        cls[1].gesture = (IF cls[1].pinch THEN "pinch"
                          ELSE IF cls[1].openHand THEN "openHand"
                          ELSE IF cls[1].fist THEN "fist"
                          ELSE Null)

(* a frame matching the pinch rule and the open-hand rule was classified *)
C8_Witness ==
    /\ cls # <<>>
    /\ cls[1].pinch
    /\ cls[1].openHand
    /\ cls[1].gesture = "pinch"

(* the squared thumb-tip / index-tip distance of the classified frame *)
ThumbIndexDist2 == Dist2(handLandmarks[4], handLandmarks[8])

(* C9: a thumb-tip / index-tip distance equal to pinchThreshold is not a
   pinch, any smaller distance is *)
C9_PinchStrict ==
    cls # <<>> =>
        /\ ThumbIndexDist2 = Sq(pinchThreshold) =>
              (~cls[1].pinch /\ cls[1].gesture # "pinch")
        /\ ThumbIndexDist2 < Sq(pinchThreshold) =>
              (cls[1].pinch /\ cls[1].gesture = "pinch")

(* a frame at exactly pinchThreshold, off the axes, was classified *)
C9_Witness ==
    /\ cls # <<>>
    /\ ThumbIndexDist2 = Sq(pinchThreshold)
    /\ handLandmarks[4].x # handLandmarks[8].x
    /\ handLandmarks[4].y # handLandmarks[8].y
    /\ ~cls[1].pinch

(* C10: a frame whose thumb tip and index tip coincide, a distance below
   every positive exclusion threshold, never satisfies the fist rule *)
C10_FistExclusion ==
    (cls # <<>> /\ ThumbIndexDist2 = 0) => ~cls[1].fist

(* the lines of conns that name pendant *)
LinksOf(conns, pendant) == SelectSeq(conns, LAMBDA c : c.pendant = pendant)

(* C11: creating a pendant when n orbs are in the pool adds exactly n
   connections, the i-th naming the new pendant and the i-th orb, and keeps
   every line but those of an evicted pendant; creating an orb adds no
   connection, and no step but a bracelet rebuild adds a line to a pendant
   that already exists, so an orb created after a pendant is never
   connected to it *)
C11_PendantLinksOrbs ==
    [][/\ CreatePendantFinish =>
            LET new == Pendant(nextPendantId)
                links == LinksOf(connections', new)
            IN /\ Len(links) = Len(orbs)
               /\ \A i \in 1..Len(orbs) :
                     links[i].pendant = new /\ links[i].orb = orbs[i]
               /\ SelectSeq(connections', LAMBDA c : c.pendant # new)
                     = SelectSeq(connections,
                                 LAMBDA c : c.pendant \notin
                                    SeqToSet(pendants) \ SeqToSet(pendants'))
       /\ CreateOrbFinish => connections' = connections
       /\ (\A objects \in BraceletInputs :
              ~CreateBraceletConnections(objects))
             => \A p \in SeqToSet(pendants) :
                   Len(LinksOf(connections', p))
                      <= Len(LinksOf(connections, p))]_vars

(* a pendant created over 3 orbs has exactly 3 lines, and the orb created
   after it is in the pool without a line to it *)
C11_Witness ==
    /\ Len(orbs) = 4
    /\ Len(pendants) = 1
    /\ Len(connections) = 3
    /\ \A i \in 1..3 :
          connections[i].pendant = pendants[1] /\ connections[i].orb = orbs[i]

(* C12: forming a bracelet from a sequence of objects replaces the
   connection list by exactly one line from each object to its cyclic
   successor, the last one to the first: as many lines as objects *)
C12_BraceletRing ==
    [][\A objects \in BraceletInputs :
          CreateBraceletConnections(objects) =>
             /\ Len(connections') = Len(objects)
             /\ \A i \in 1..Len(objects) :
                   /\ connections'[i].obj1 = objects[i]
                   /\ connections'[i].obj2
                         = objects[IF i = Len(objects) THEN 1 ELSE i + 1]]_vars

(* the ring over two orbs and a pendant stands where the pendant's two
   lines to the orbs stood *)
C12_Witness ==
    /\ orbs = <<Orb(1), Orb(2)>>
    /\ pendants = <<Pendant(1)>>
    /\ Len(connections) = 3
    /\ <<connections[1].obj1, connections[1].obj2>> = <<Orb(1), Orb(2)>>
    /\ <<connections[2].obj1, connections[2].obj2>> = <<Orb(2), Pendant(1)>>
    /\ <<connections[3].obj1, connections[3].obj2>> = <<Pendant(1), Orb(1)>>

(* C13: a createPendant call made without an identified plant is rejected,
   and a call that is rejected, at the plant check or when its texture fails
   to load, leaves the pendant pool, the connection list and the orb pool
   as they were *)
C13_FailedPendantMutatesNothing ==
    [][/\ (~latestPlant /\ CreatePendantNoPlant) => pendantError'
       /\ (pendantError' /\ (CreatePendantNoPlant
                              \/ pendingPendants' < pendingPendants))
             => /\ pendants' = pendants
                /\ connections' = connections
                /\ orbs' = orbs
                /\ nextPendantId' = nextPendantId]_vars

(* after one pendant was created over an orb, a second call passed the
   plant check and was rejected when its texture failed *)
C13_Witness ==
    /\ pendantError
    /\ latestPlant
    /\ nextPendantId = 2
    /\ pendingPendants = 0
    /\ pendants = <<Pendant(1)>>
    /\ Len(orbs) >= 1
    /\ Len(connections) >= 1

(* C14: when the location, the weather or the air-quality request fails,
   one of the two data requests included, createOrb still inserts the new
   orb and the visual mapping receives temperature 20, condition "clear"
   and AQI 50, nothing of what was fetched *)
C14_FallbackOnFailure ==
    [][\A outcome \in FetchOutcomes \ {"ok"} :
          CreateOrbSettle(outcome) =>
             /\ orbs' = Append(orbs, Orb(nextOrbId))
             /\ orbUserData'[1].weatherData
                   = [temperature |-> 200, condition |-> clear]
             /\ orbUserData'[1].airQualityData = [aqiUS |-> 50]
             /\ orbUserData'[1].visualProps
                   = MapDataToVisuals([temperature |-> 200,
                                       condition |-> clear],
                                      [aqiUS |-> 50])]_vars

(* the services answer with nothing of the fallback, and the orb in the
   pool was made from the fallback *)
C14_Witness ==
    /\ Len(orbs) = 1
    /\ orbUserData # <<>>
    /\ envData.weatherData.temperature # 200
    /\ ToLowerCase(envData.weatherData.condition) # clear
    /\ envData.airQualityData.aqiUS # 50
    /\ orbUserData[1].weatherData = FallbackWeather
    /\ orbUserData[1].airQualityData = FallbackAirQuality

(* createOrb calls dispatched so far, and those that inserted their orb *)
OrbsDispatched == (nextOrbId - 1) + pendingOrbs

OrbsInserted == nextOrbId - 1

(* C15: every dispatched createOrb eventually completes, and it completes
   by inserting exactly one new orb at the end of the pool, whether its
   requests succeed or fail and whatever tracking losses and clears happen
   while it awaits its data *)
C15_OrbEventuallyInserted ==
    /\ \A k \in 1..MaxOrbsCreated :
          (OrbsDispatched >= k) ~> (OrbsInserted >= k)
    /\ [][pendingOrbs' < pendingOrbs =>
             /\ pendingOrbs' = pendingOrbs - 1
             /\ OrbsInserted' = OrbsInserted + 1
             /\ Len(orbs') >= 1
             /\ orbs'[Len(orbs')] = Orb(nextOrbId)
             /\ Len(orbs') <= Len(orbs) + 1]_vars

(* two pinches were dispatched; the first orb was cleared away, the second
   one was made from the fallback while no hand was tracked *)
C15_Witness ==
    /\ OrbsInserted = 2
    /\ pendingOrbs = 0
    /\ orbs = <<Orb(2)>>
    /\ disposedOrbs = <<Orb(1)>>
    /\ handLandmarks = NoHand
    /\ orbUserData[1].weatherData = FallbackWeather
    /\ envData.weatherData # FallbackWeather

(* C16: the air-quality index is bucketed by the thresholds 50, 100, 150,
   200, each inclusive as an upper bound: up to 50 the good color, 51..100
   moderate, 101..150 unhealthy, 151..200 veryUnhealthy, above 200
   hazardous *)
C16_AqiTiers ==
    orbUserData # <<>> =>
        LET aqi == orbUserData[1].airQualityData.aqiUS
            color == orbUserData[1].visualProps.color
        IN /\ aqi <= 50 => color = colors.good
           /\ (51 <= aqi /\ aqi <= 100) => color = colors.moderate
           /\ (101 <= aqi /\ aqi <= 150) => color = colors.unhealthy
           /\ (151 <= aqi /\ aqi <= 200) => color = colors.veryUnhealthy
           /\ aqi > 200 => color = colors.hazardous

(* an orb made from a fetched index of 51 is moderate *)
C16_Witness ==
    /\ orbUserData # <<>>
    /\ envData.airQualityData.aqiUS = 51
    /\ orbUserData[1].airQualityData.aqiUS = 51
    /\ orbUserData[1].visualProps.color = colors.moderate

(* C17: for every temperature the animation speed lies in
   [minSpeed, maxSpeed]; it is minSpeed at or below minTemp, maxSpeed at or
   above maxTemp, no smaller than the speed of any lower temperature, and
   strictly inside the range at 20 degrees. Speeds are numerators over
   maxTemp - minTemp. *)
C17_SpeedClamped ==
    orbUserData # <<>> =>
        LET temp == orbUserData[1].weatherData.temperature
            speed == orbUserData[1].visualProps.animationSpeed
            lowest == minSpeed * (maxTemp - minTemp)
            highest == maxSpeed * (maxTemp - minTemp)
        IN /\ lowest <= speed /\ speed <= highest
           /\ temp <= minTemp => speed = lowest
           /\ temp >= maxTemp => speed = highest
           /\ \A lower \in TemperatureInputs :
                 lower <= temp => AnimationSpeed(lower) <= speed
           /\ temp = 200 => (lowest < speed /\ speed < highest)

(* an orb made from a fetched temperature of 45.1 degrees runs at maxSpeed *)
C17_Witness ==
    /\ orbUserData # <<>>
    /\ orbUserData[1].weatherData.temperature = 451
    /\ orbUserData[1].visualProps.animationSpeed
          = maxSpeed * (maxTemp - minTemp)

(* C18: the condition is lower-cased and looked up in the shape table; a
   condition that is no key of the table yields the morphFactor and the
   spikiness of the "clear" entry, a key in any letter case its own entry *)
C18_ShapeLookup ==
    orbUserData # <<>> =>
        LET condition == ToLowerCase(orbUserData[1].weatherData.condition)
            props == orbUserData[1].visualProps
            entry == IF condition \in DOMAIN shapes
                     THEN shapes[condition] ELSE shapes[clear]
        IN /\ props.morphFactor = entry.morphFactor
           /\ props.spikiness = entry.spikiness

(* C19: an update tick (animate, OrbCreator.update, PendantCreator.update)
   leaves the orb pool, the pendant pool, the connection list with the
   endpoints of every line, the wrist flags and the disposed objects as they
   are; only animation values and the lines' rendered points change *)
C19_TickKeepsObjects ==
    [][(Animate \/ OrbUpdate \/ PendantUpdate) =>
          /\ orbs' = orbs
          /\ pendants' = pendants
          /\ Len(connections') = Len(connections)
          /\ \A i \in 1..Len(connections) :
                /\ connections'[i].obj1 = connections[i].obj1
                /\ connections'[i].obj2 = connections[i].obj2
                /\ connections'[i].pendant = connections[i].pendant
                /\ connections'[i].orb = connections[i].orb
          /\ orbAttached' = orbAttached
          /\ wristAlias' = wristAlias
          /\ isWristTracking' = isWristTracking
          /\ disposedOrbs' = disposedOrbs
          /\ disposedPendants' = disposedPendants
          /\ nextOrbId' = nextOrbId
          /\ nextPendantId' = nextPendantId]_vars

(* ticks have run over wrist-attached orbs, a pendant and its lines, one of
   them to an orb that was evicted from the wrist by a clear *)
C19_Witness ==
    /\ animationTime = MaxTicks
    /\ Len(orbs) >= 1
    /\ orbAttached # {}
    /\ Len(pendants) >= 1
    /\ Len(connections) >= 1

(* C20: when the clear action returns, the orb pool, the pendant pool and
   the connection list are empty, no orb is wrist-attached, wrist tracking
   is off, and every orb and pendant that was in a pool has been disposed *)
C20_ClearEmptiesAll ==
    [][OnPeaceGesture =>
          /\ orbs' = <<>>
          /\ pendants' = <<>>
          /\ connections' = <<>>
          /\ orbAttached' = {}
          /\ ~isWristTracking'
          /\ WristOrbs' = <<>>
          /\ SeqToSet(orbs) \subseteq SeqToSet(disposedOrbs')
          /\ SeqToSet(pendants) \subseteq SeqToSet(disposedPendants')]_vars

(* everything is empty, and three orbs and two pendants are disposed *)
C20_Witness ==
    /\ orbs = <<>>
    /\ pendants = <<>>
    /\ connections = <<>>
    /\ orbAttached = {}
    /\ ~isWristTracking
    /\ Len(disposedOrbs) = 3
    /\ Len(disposedPendants) = 2
    /\ pendingOrbs = 0
    /\ pendingPendants = 0

(* C21: a peace-sign frame that follows another pose, processed outside the
   cooldown, runs the peace handler: in that step the orb pool, the pendant
   pool and the connection list are emptied *)
C21_PeaceClears ==
    [][(/\ FrameStep
        /\ handLandmarks' = PeaceFrame
        /\ handLandmarks # PeaceFrame
        /\ now' - lastGestureTime >= cooldownMs)
          => /\ orbs' = <<>>
             /\ pendants' = <<>>
             /\ connections' = <<>>]_vars

(* C22: every orb and every pendant constructed so far is either a member
   of its pool or was disposed, never both, and no object was disposed
   twice: an object is disposed in the step in which it leaves its pool, by
   eviction or by a clear, and not again *)
C22_DisposedExactlyOnce ==
    /\ Cardinality(SeqToSet(disposedOrbs)) = Len(disposedOrbs)
    /\ Cardinality(SeqToSet(disposedPendants)) = Len(disposedPendants)
    /\ SeqToSet(disposedOrbs) \cap SeqToSet(orbs) = {}
    /\ SeqToSet(disposedPendants) \cap SeqToSet(pendants) = {}
    /\ SeqToSet(orbs) \cup SeqToSet(disposedOrbs)
          = {Orb(i) : i \in 1..(nextOrbId - 1)}
    /\ SeqToSet(pendants) \cup SeqToSet(disposedPendants)
          = {Pendant(i) : i \in 1..(nextPendantId - 1)}

(* the first orb and the first pendant were disposed by an eviction, the
   others by a clear of two full pools *)
C22_Witness ==
    /\ orbs = <<>>
    /\ pendants = <<>>
    /\ Len(disposedOrbs) = maxOrbs + 1
    /\ Len(disposedPendants) = maxPendants + 1
    /\ nextOrbId = maxOrbs + 2
    /\ nextPendantId = maxPendants + 2

(* C23: removeOrb or removePendant called with an object that is not, or no
   longer, in its pool leaves both pools, their order and the connection
   list as they are; called with a member it takes exactly that member out,
   so that a second call with the same object finds a non-member and
   changes nothing more *)
C23_RemoveIdempotent ==
    [][/\ \A n \in 1..(nextOrbId - 1) :
             RemoveOrb(Orb(n)) =>
                /\ pendants' = pendants
                /\ IF Orb(n) \in SeqToSet(orbs)
                   THEN /\ orbs' = SelectSeq(orbs, LAMBDA o : o # Orb(n))
                        /\ Orb(n) \notin SeqToSet(orbs')
                   ELSE /\ orbs' = orbs
                        /\ connections' = connections
       /\ \A n \in 1..(nextPendantId - 1) :
             RemovePendant(Pendant(n)) =>
                /\ orbs' = orbs
                /\ IF Pendant(n) \in SeqToSet(pendants)
                   THEN /\ pendants'
                             = SelectSeq(pendants, LAMBDA q : q # Pendant(n))
                        /\ Pendant(n) \notin SeqToSet(pendants')
                   ELSE /\ pendants' = pendants
                        /\ connections' = connections]_vars

(* the first orb and the first pendant were each removed twice; the second
   orb, the second pendant and its lines are still there *)
C23_Witness ==
    /\ disposedOrbs = <<Orb(1), Orb(1)>>
    /\ disposedPendants = <<Pendant(1), Pendant(1)>>
    /\ orbs = <<Orb(2)>>
    /\ pendants = <<Pendant(2)>>
    /\ Len(connections) >= 1

(* C24: attaching the orbs of the pool to the wrist, detaching them and
   attaching the pendants change nothing but the attachment state (the wrist
   list, the attachedToWrist flags, tracking, the wrist indices): both
   pools, their order, the connection list and the disposed objects stay as
   they are; after a detach no orb of the pool is flagged and the wrist list
   is empty *)
C24_AttachKeepsPools ==
    [][/\ ((~latestPlant /\ OnOpenHandGesture)
            \/ DetachOrbsFromWrist
            \/ \E orbCount \in {0, Len(WristOrbs)} :
                  AttachPendantsToWrist(orbCount))
             => /\ orbs' = orbs
                /\ pendants' = pendants
                /\ connections' = connections
                /\ disposedOrbs' = disposedOrbs
                /\ disposedPendants' = disposedPendants
                /\ UNCHANGED <<latestPlant, pendingOrbs, pendingPendants,
                               nextOrbId, nextPendantId>>
       /\ DetachOrbsFromWrist
             => /\ orbAttached' = {}
                /\ WristOrbs' = <<>>
                /\ ~isWristTracking']_vars

(* two orbs were attached, a pendant was attached after them with wrist
   index 2, and the orbs were detached: pools and lines are all there *)
C24_Witness ==
    /\ Len(orbs) = 2
    /\ Len(pendants) >= 1
    /\ Len(connections) >= 2
    /\ Pendant(1) \in DOMAIN pendantWrist
    /\ pendantWrist[Pendant(1)] = 2
    /\ ~wristAlias
    /\ ~isWristTracking
    /\ orbAttached = {}

(* C25: every orb of the wrist list, the list the wrist-orbit update walks
   and repositions, carries the attachedToWrist flag that an attach action
   set; an orb created after the attach is not in that list *)
C25_WristListFlagged ==
    \A i \in 1..Len(WristOrbs) : WristOrbs[i] \in orbAttached

(* C26: at most one frame is in flight in the hand tracker, and while one is
   in flight no further processFrame callback is scheduled: the next frame
   is sent only after the previous send has completed *)
C26_OneFrameInFlight ==
    /\ framesInFlight \in {0, 1}
    /\ framesInFlight = 1 => ~frameScheduled

(* a frame is in flight after an earlier frame was delivered and fired a
   gesture *)
C26_Witness ==
    /\ framesInFlight = 1
    /\ ~frameScheduled
    /\ Len(eventLog) >= 1
    /\ now > StartTime

(* C27: an open-hand event without an identified plant starts no pendant
   and attaches every orb of the pool to the wrist (nothing changes when the
   pool is empty); an open-hand event with an identified plant starts one
   createPendant call and leaves the wrist state alone *)
C27_OpenHand ==
    [][(/\ Len(eventLog') = Len(eventLog) + 1
        /\ eventLog'[Len(eventLog')][1] = "openHand")
       => IF ~latestPlant
          THEN /\ pendingPendants' = pendingPendants
               /\ nextPendantId' = nextPendantId
               /\ pendants' = pendants
               /\ orbs' = orbs
               /\ orbAttached' = orbAttached \cup SeqToSet(orbs)
               /\ orbs # <<>> => WristOrbs' = orbs /\ isWristTracking'
               /\ orbs = <<>> =>
                     UNCHANGED <<wristAlias, isWristTracking, orbAttached>>
          ELSE /\ pendingPendants' = pendingPendants + 1
               /\ pendants' = pendants
               /\ UNCHANGED <<wristAlias, isWristTracking, orbAttached,
                              pendantWrist>>]_vars

(* one open hand attached the orbs of the pool, a later one, with a plant
   identified, made a pendant *)
C27_Witness ==
    /\ \E i, j \in 1..Len(eventLog) :
          /\ i < j
          /\ eventLog[i][1] = "openHand"
          /\ eventLog[j][1] = "openHand"
    /\ orbAttached # {}
    /\ Len(pendants) >= 1

(* C28: when the primary identification request fails the PlantNet fallback
   decides the call: a fallback match is recorded as the latest plant with
   source 'PlantNet' and no error; when both fail the error thrown to the
   caller is the primary one and the recorded plant stays as it was; a
   primary answer is never replaced by the fallback *)
C28_PlantNetFallback ==
    [][\A primary \in PlantIdOutcomes : \A fallback \in PlantNetOutcomes :
         IdentifyPlant(primary, fallback) =>
           /\ (primary = "fails" /\ fallback = "match")
                 => /\ latestPlant'
                    /\ plantSource' = "PlantNet"
                    /\ identifyError' = "none"
           /\ (primary = "fails" /\ fallback = "fails")
                 => /\ identifyError' = "primary"
                    /\ latestPlant' = latestPlant
                    /\ plantSource' = plantSource
           /\ primary = "match"
                 => /\ plantSource' = "Plant.id"
                    /\ identifyError' = "none"]_vars

(* a plant identified by the fallback, then a call in which both services
   failed *)
C28_Witness ==
    /\ latestPlant
    /\ plantSource = "PlantNet"
    /\ identifyError = "primary"

(* C29: all the objects positioned on the wrist orbit, orbs and pendants,
   are given slots of the same total N, with indices in 0..N-1 that differ
   from one object to the other *)
C29_WristSlotsDistinct ==
    \A a \in WristSlots : \A b \in WristSlots :
        /\ a.total = b.total
        /\ a.index \in 0..(a.total - 1)
        /\ a.object # b.object => a.index # b.index

(* C30: after a tick of the pendant update every line of the connection
   list, pendant to orb or bracelet edge, is drawn between its own two
   endpoints: its two points are taken from obj1 and obj2 *)
C30_LineBetweenEndpoints ==
    [][PendantUpdate =>
          \A i \in 1..Len(connections') :
              SeqToSet(connections'[i].points)
                 = {connections'[i].obj1, connections'[i].obj2}]_vars

(* C31: the clearAll of the first PendantCreator class disposes every
   pendant that was in the pool when it was called, and leaves the pendant
   pool and the connection list empty *)
C31_FirstClearAllDisposesAll ==
    [][PendantClearAllFirst =>
          /\ pendants' = <<>>
          /\ connections' = <<>>
          /\ \A p \in SeqToSet(pendants) :
                p \in SeqToSet(disposedPendants')]_vars

(* C32: every orb of the wrist list, the list the wrist-orbit update
   repositions, is a member of the orb pool and has not been disposed: an
   orb that was evicted or cleared is in the wrist list no more *)
C32_WristOrbsInPool ==
    \A i \in 1..Len(WristOrbs) :
        /\ WristOrbs[i] \in SeqToSet(orbs)
        /\ WristOrbs[i] \notin SeqToSet(disposedOrbs)

(* a full pool was attached to the wrist, then one more orb was created and
   the oldest attached orb was evicted: the wrist list is the pool of the
   nine attached orbs left and the new one *)
C32_Witness ==
    /\ wristAlias
    /\ isWristTracking
    /\ Len(orbs) = maxOrbs
    /\ disposedOrbs = <<Orb(1)>>
    /\ orbs[maxOrbs] = Orb(maxOrbs + 1)
    /\ orbAttached = SeqToSet(orbs) \ {Orb(maxOrbs + 1)}

(* C33: for each cache key at most one fetch is in flight; a call made while
   a request for its key is pending creates no request and is handed the
   pending promise *)
C33_OneFetchPerKey ==
    [][/\ \A key \in Keys : InFlight(key)' <= 1
       /\ \A key \in Keys :
             (GetData(key) /\ pendingRequests[key] # <<>>)
                => /\ requests' = requests
                   /\ pendingRequests' = pendingRequests
                   /\ apiReturn'[1].how = "pending"
                   /\ apiReturn'[1].data = pendingRequests[key][1]]_vars

(* a second call for weather was handed the promise of the pending first
   request while another request, for air quality, was in flight *)
C33_Witness ==
    /\ Len(requests) = 2
    /\ InFlight("weather") = 1
    /\ InFlight("airquality") = 1
    /\ apiReturn # <<>>
    /\ apiReturn[1].how = "pending"
    /\ apiReturn[1].key = "weather"
    /\ apiReturn[1].data = pendingRequests["weather"][1]

(* C34: a call for a key whose stored entry is younger than cacheTimeout
   returns the stored data and issues no fetch; a call at age cacheTimeout
   or later, with no request pending, issues exactly one fetch; when a
   request succeeds its data and the time of the store replace the entry *)
C34_CacheWindow ==
    [][/\ \A key \in Keys :
             (GetData(key) /\ cache[key] # <<>>) =>
                IF apiNow - cache[key][1].timestamp < cacheTimeout
                THEN /\ requests' = requests
                     /\ pendingRequests' = pendingRequests
                     /\ cache' = cache
                     /\ apiReturn' = <<[key |-> key, how |-> "cache",
                                        data |-> cache[key][1].data]>>
                ELSE pendingRequests[key] = <<>> =>
                        /\ Len(requests') = Len(requests) + 1
                        /\ InFlight(key)' = 1
                        /\ apiReturn'[1].how = "fetch"
                        /\ cache' = cache
       /\ \A id \in 1..Len(requests) :
             (IssuerResume(id) /\ requests[id].status = "resolved") =>
                cache'[requests[id].key]
                   = <<[data |-> id, timestamp |-> apiNow]>>]_vars

(* the weather stored at time 0 by the first request is exactly
   cacheTimeout old and a call has just issued the second request *)
C34_Witness ==
    /\ apiNow = cacheTimeout
    /\ cache["weather"] = <<[data |-> 1, timestamp |-> 0]>>
    /\ apiReturn = <<[key |-> "weather", how |-> "fetch", data |-> 2]>>
    /\ InFlight("weather") = 1

(* C35: when a request fails the issuing call throws the error, the pending
   entry of its key is deleted and the cache is left as it was; the next
   call for the key issues a new fetch; whenever no issuing call is
   suspended the pending map is empty *)
C35_FailureCleansUp ==
    [][/\ \A id \in 1..Len(requests) :
             (IssuerResume(id) /\ requests[id].status = "rejected") =>
                /\ apiReturn' = <<[key |-> requests[id].key,
                                   how |-> "error", data |-> id]>>
                /\ pendingRequests'[requests[id].key] = <<>>
                /\ cache' = cache
       /\ \A key \in Keys :
             (/\ GetData(key)
              /\ apiReturn # <<>>
              /\ apiReturn[1].key = key
              /\ apiReturn[1].how = "error")
                => /\ apiReturn'[1].how = "fetch"
                   /\ InFlight(key)' = 1
       /\ (\A i \in 1..Len(requests') : requests'[i].status = "done")
             => \A key \in Keys : pendingRequests'[key] = <<>>]_vars

(* the refresh of a stored weather entry failed: the error was thrown, the
   old entry is still there, nothing is pending, and the call after it
   issued the third request *)
C35_Witness ==
    /\ cache["weather"] = <<[data |-> 1, timestamp |-> 0]>>
    /\ Len(requests) = 3
    /\ requests[2] = [key |-> "weather", status |-> "done"]
    /\ requests[3] = [key |-> "weather", status |-> "flying"]
    /\ apiReturn = <<[key |-> "weather", how |-> "fetch", data |-> 3]>>

(* C36: at most one identifyPlant call is suspended at a service request;
   a call made while isProcessing changes nothing (no request, no plant);
   isProcessing is false when an identification ends, however it ends, and
   whenever none is in progress *)
C36_OneIdentification ==
    [][/\ identifying' <= 1
       /\ (IdentifyPlantCall /\ isProcessing) =>
             UNCHANGED <<identifying, isProcessing, latestPlant,
                         plantSource, identifyError>>
       /\ (IdentifyPlantCall /\ ~isProcessing) =>
             identifying' = 1 /\ isProcessing'
       /\ \A primary \in PlantIdOutcomes : \A fallback \in PlantNetOutcomes :
             IdentifyPlantEnd(primary, fallback) => ~isProcessing'
       /\ identifying' = 0 => ~isProcessing']_vars

(* an identification threw the primary error, and a later call was let in
   and is in progress *)
C36_Witness ==
    /\ isProcessing
    /\ identifying = 1
    /\ identifyError = "primary"
    /\ ~latestPlant

(* C37: once stop() has returned the frame loop is over: no frame is sent
   to the hand tracker and no animation frame is requested any more, also
   when stop() was called while a send was awaiting its completion *)
C37_StopEndsLoop ==
    [][~isInitialized =>
          /\ ~frameScheduled'
          /\ framesInFlight' <= framesInFlight]_vars

(* C38: no frame satisfies both the open-hand rule and the fist rule,
   whatever the four fingers (extended, closed or level) and the thumb
   (extended, closed, both or neither) look like *)
C38_OpenHandFistExclusive ==
    cls # <<>> => ~(cls[1].openHand /\ cls[1].fist)

(* a frame whose thumb counts as extended and as closed, with three fingers
   extended and one closed, was classified: it matches the open-hand rule
   only *)
C38_Witness ==
    /\ cls # <<>>
    /\ Abs(handLandmarks[4].x - handLandmarks[3].x) > thumbExtendedMin
    /\ Abs(handLandmarks[4].x - handLandmarks[5].x) < thumbClosedMax
    /\ Cardinality({f \in Fingers :
                      handLandmarks[f.tip].y < handLandmarks[f.pip].y}) = 3
    /\ Cardinality({f \in Fingers :
                      handLandmarks[f.tip].y > handLandmarks[f.pip].y}) = 1
    /\ cls[1].openHand
    /\ ~cls[1].fist

(* C39: the label the environmental panel shows for the index of an orb
   names the tier of the orb's color: Good with good, Moderate with
   moderate, Unhealthy with unhealthy, Very Unhealthy with veryUnhealthy,
   Hazardous with hazardous *)
C39_LabelMatchesColor ==
    orbUserData # <<>> =>
        LET label == AqiLabel(orbUserData[1].airQualityData.aqiUS)
            color == orbUserData[1].visualProps.color
        IN /\ label = "Good" <=> color = colors.good
           /\ label = "Moderate" <=> color = colors.moderate
           /\ label = "Unhealthy" <=> color = colors.unhealthy
           /\ label = "Very Unhealthy" <=> color = colors.veryUnhealthy
           /\ label = "Hazardous" <=> color = colors.hazardous

(* an orb made from a fetched index of 200, the last value of its tier, is
   labelled Very Unhealthy and has the veryUnhealthy color *)
C39_Witness ==
    /\ orbUserData # <<>>
    /\ orbUserData[1].airQualityData.aqiUS = 200
    /\ AqiLabel(orbUserData[1].airQualityData.aqiUS) = "Very Unhealthy"
    /\ orbUserData[1].visualProps.color = colors.veryUnhealthy

(* requests to the air-quality function, one after another *)
NextAirQuality ==
    \E pm25 \in Pm25Inputs : AirQualityHandler(pm25)

SpecAirQuality == Init /\ [][NextAirQuality]_vars

(* C40: every concentration from 0 to 500 lies in a band, its conversion
   lies in 0..500, and of two answers the one with the higher concentration
   never has the lower index *)
C40_ConvertTotalMonotone ==
    \A i, j \in 1..Len(responses) :
        /\ BandsOf(responses[i].pm2_5) # {}
        /\ responses[i].aqiUS \in 0..500
        /\ responses[i].pm2_5 <= responses[j].pm2_5
              => responses[i].aqiUS <= responses[j].aqiUS

====
